---- MODULE Spec2Model ----
(***************************************************************************)
(* HelixMapr (research app): relational store, custom field values,        *)
(* strain forms, membership views and organization snapshot export /       *)
(* restore, modelled from src/research.                                    *)
(*                                                                         *)
(* The committed relational store is the record `db` (one field per        *)
(* table).  Primary keys are positive integers, 0 stands for None.         *)
(* A column value is a pair <<tag, n>>: the tag is the Python type of the  *)
(* value and n its payload, so that 12, "12" and 12.0 are different.       *)
(*                                                                         *)
(* `restore` is the position of a running snapshot restore, `run` the      *)
(* positions of the request workers inside a CSV import or a value write,  *)
(* and `last` the outcome of the last finished operation.                  *)
(***************************************************************************)
EXTENDS Integers, Sequences, FiniteSets, TLC

VARIABLES db, restore, last, run

vars == <<db, restore, last, run>>

----------------------------------------------------------------------------
(* Bounds of the model *)

MaxDefs == 1
MaxStrains == 2
MaxRestores == 1

(* rows of the organism table *)
MaxOrganisms == 2

(* conditions of a conditional_logic tree *)
MaxConditions == 2

----------------------------------------------------------------------------
(* Program constants *)

SNAPSHOT_VERSION == "1.0"

Users == {1, 2}

Roles == {"owner", "admin", "editor", "viewer"}

FieldTypes == {"text", "long_text", "integer", "decimal", "date", "boolean",
               "single_select", "multi_select", "foreign_key", "file", "url", "email"}

NUMBER == "integer"

CHOICE == "single_select"

Columns == {"value_text", "value_long_text", "value_number", "value_integer",
            "value_decimal", "value_date", "value_boolean", "value_choice",
            "value_single_select", "value_multi_select", "value_fk_content_type",
            "value_fk_object_id", "value_file", "value_url", "value_email"}

(* varchar(255) of value_choice / value_single_select *)
ChoiceMaxLength == 255

----------------------------------------------------------------------------
(* Values *)

None == <<"none", 0>>

EmptyStr == <<"str", 0>>

EmptyList == <<"list", 0>>

(* payloads of the strings 'No' and 'Yes' produced by display_value *)
StrNo == 100

StrYes == 101

(* payload of the string ', '.join(l) for the list with payload n *)
JoinedStr(n) == IF n = 0 THEN 0 ELSE 200 + n

(* payload of a choice string of more than ChoiceMaxLength characters *)
LongChoice == ChoiceMaxLength + 1

(* False, the cleaned value of a file input whose clear box is ticked *)
Cleared == <<"bool", 0>>

(* a fresh CustomFieldValue row: every column NULL, value_multi_select = [] *)
BlankColumns == [c \in Columns |-> IF c = "value_multi_select" THEN EmptyList ELSE None]

----------------------------------------------------------------------------
(* dynamic_forms.py: evaluate_condition_logic                              *)
(* A JSON tree is [kind, operator, conditions]: kind "none" is None,       *)
(* "empty" is {}, "list" is a non-empty JSON array and "map" a non-empty   *)
(* object.  An absent key is Absent, a JSON number where a string is       *)
(* expected is ANumber.  conditions is [kind, items] with kind "absent",   *)
(* "list", "number" or "string"; an item is [kind, field, operator,        *)
(* value] with kind "map" or "string".                                     *)

Absent == "<absent>"

ANumber == "<number>"

AMP == <<"str", 1>>

KAN == <<"str", 2>>

(* str.upper() *)
Upper(s) ==
    CASE s \in {"and", "And", "AND"} -> "AND"
      [] s \in {"or", "Or", "OR"} -> "OR"
      [] s \in {"xor", "XOR"} -> "XOR"
      [] OTHER -> s

(* str.lower() *)
Lower(s) ==
    CASE s \in {"equals", "EQUALS"} -> "equals"
      [] s \in {"not_equals", "NOT_EQUALS"} -> "not_equals"
      [] s \in {"contains"} -> "contains"
      [] s \in {"gt", "GT"} -> "gt"
      [] s \in {"lt", "LT"} -> "lt"
      [] OTHER -> s

(* bool(value) of a scalar *)
Truthy(v) == ~(v[2] = 0 /\ v[1] \in {"none", "str", "int", "float", "dec", "bool", "list"})

(* values.get(key): None when the key is absent *)
DictGet(values, key) == IF key \in DOMAIN values THEN values[key] ELSE None

(* the key f'custom_{field_key}' of line 25 *)
CustomKey(key) ==
    CASE key = "selective_marker" -> "custom_selective_marker"
      [] key = "marker" -> "custom_marker"
      [] OTHER -> "custom_?"

NumericTags == {"int", "float", "dec", "bool"}

(* Python ==: numbers compare by value whatever their type (0 == False == 0.0) *)
PyEq(a, b) == a = b \/ (a[1] \in NumericTags /\ b[1] \in NumericTags /\ a[2] = b[2])

(* actual > expected is defined between two numbers or two strings *)
Comparable(a, b) ==
    \/ a[1] \in NumericTags /\ b[1] \in NumericTags
    \/ a[1] = "str" /\ b[1] = "str"

(* one pass of the loop body, lines 22-42: "True", "False" or "raises" *)
EvaluateCondition(condition, values) ==
    IF condition.kind # "map" THEN "raises"
    ELSE IF condition.operator = ANumber THEN "raises"
    ELSE
      LET op == Lower(IF condition.operator \in {Absent, ""} THEN "equals"
                      ELSE condition.operator)
          expected == condition.value
          first == DictGet(values, condition.field)
          found == IF Truthy(first) THEN first
                   ELSE DictGet(values, CustomKey(condition.field))
          actual == IF found[1] = "obj" THEN <<"int", found[2]>> ELSE found
          B(b) == IF b THEN "True" ELSE "False"
      IN  CASE op = "equals" -> B(PyEq(actual, expected))
            [] op = "not_equals" -> B(~PyEq(actual, expected))
            [] op = "contains" ->
                 B(expected = EmptyStr
                   \/ (IF Truthy(actual) THEN actual ELSE EmptyStr) = expected)
            [] op = "gt" ->
                 IF actual = None THEN "False"
                 ELSE IF ~Comparable(actual, expected) THEN "raises"
                 ELSE B(actual[2] > expected[2])
            [] op = "lt" ->
                 IF actual = None THEN "False"
                 ELSE IF ~Comparable(actual, expected) THEN "raises"
                 ELSE B(actual[2] < expected[2])
            [] OTHER -> "False"

(* all(results) *)
AllOf(results) == \A i \in DOMAIN results : results[i] = "True"

(* any(results) *)
AnyOf(results) == \E i \in DOMAIN results : results[i] = "True"

(* line 43: all(results) if operator == 'AND' else any(results) *)
Combine(operator, results) == IF operator = "AND" THEN AllOf(results) ELSE AnyOf(results)

evaluate_condition_logic(logic, values) ==
    IF logic.kind \in {"none", "empty"} THEN "True"
    ELSE IF logic.kind # "map" THEN "raises"
    ELSE IF logic.operator = ANumber THEN "raises"
    ELSE IF logic.conditions.kind = "number" THEN "raises"
    ELSE
      LET operator == Upper(IF logic.operator \in {Absent, ""} THEN "AND"
                            ELSE logic.operator)
          conditions == IF logic.conditions.kind = "absent" THEN <<>>
                        ELSE logic.conditions.items
          results == [i \in DOMAIN conditions |->
                        IF logic.conditions.kind = "string" THEN "raises"
                        ELSE EvaluateCondition(conditions[i], values)]
      IN  IF \E i \in DOMAIN results : results[i] = "raises" THEN "raises"
          ELSE IF Combine(operator, results) THEN "True" ELSE "False"

(* models.py: default_value = JSONField(default=dict): the empty dict, or a dict with
   the key value *)
EmptyDefault == [set |-> FALSE, value |-> None]

(* models.py: conditional_logic = JSONField(default=dict) *)
EmptyLogic ==
    [kind |-> "empty", operator |-> Absent, conditions |-> [kind |-> "absent", items |-> <<>>]]

----------------------------------------------------------------------------
(* Store *)

NoOp == [op |-> "none"]

IdleRestore == [pc |-> "idle"]

(* the two request workers that can run an import or a value write at once; worker p
   serves the requests of user p *)
Procs == {1, 2}

IdleRun == [p \in Procs |-> [pc |-> "idle"]]

(* CSVUploadView._get_state without the session key csv_import_state: {} *)
EmptyWizard == [step |-> "", headers |-> <<>>, rows |-> <<>>, column_mapping |-> <<>>]

Fixture ==
    [ organization  |-> [uuid |-> 1, name |-> "Org", slug |-> "org"],
      org_members   |-> {[user |-> 1, role |-> "admin"]},
      databases     |-> {[id |-> 1, name |-> "DB", created_by |-> 1]},
      memberships   |-> {[research_database |-> 1, user |-> 1, role |-> "owner"],
                         [research_database |-> 1, user |-> 2, role |-> "editor"]},
      organisms     |-> {[id |-> 1, research_database |-> 1, name |-> "E. coli"]},
      locations     |-> {[id |-> 1, research_database |-> 1, box |-> "BX1"]},
      plasmids      |-> {[id |-> 1, research_database |-> 1, name |-> "pAMP"]},
      strains       |-> {[id |-> 1, research_database |-> 1, strain_id |-> "S1",
                          organism |-> 1, location |-> 1, created_by |-> 1,
                          is_active |-> TRUE, is_archived |-> FALSE,
                          archived_at |-> 0, archived_by |-> 0]},
      strain_plasmids |-> {[strain |-> 1, plasmid |-> 1]},
      custom_fields |-> {},
      field_values  |-> {},
      audit_logs    |-> {},
      activity_logs |-> {},
      sessions      |-> [u \in 1..3 |-> 0],
      wizards       |-> [u \in 1..3 |-> EmptyWizard],
      seq           |-> [databases |-> 1, organisms |-> 1, locations |-> 1, plasmids |-> 1,
                         strains |-> 1, custom_fields |-> 0, audit_logs |-> 0] ]

----------------------------------------------------------------------------
(* Generic helpers *)

(* signals.audit_save -> helpers.log_activity: the activity entry written when a row of an
   audited model is saved; the model tracks the entries of field definitions *)
log_activity(logs, research_database, user, model_name, object_id, action) ==
    logs \cup {[research_database |-> research_database, user |-> user,
                model_name |-> model_name, object_id |-> object_id, action |-> action]}

Max(S) == IF S = {} THEN 0 ELSE CHOOSE x \in S : \A y \in S : y <= x

(* the rows of S in ascending primary key order *)
RECURSIVE RowsById(_)
RowsById(S) ==
    IF S = {} THEN <<>>
    ELSE LET r == CHOOSE x \in S : \A y \in S : x.id <= y.id
         IN  <<r>> \o RowsById(S \ {r})

(* the rows of S in some fixed order (tables without a primary key in the model) *)
RECURSIVE RowsOf(_)
RowsOf(S) ==
    IF S = {} THEN <<>>
    ELSE LET r == CHOOSE x \in S : TRUE
         IN  <<r>> \o RowsOf(S \ {r})

Lookup(map, key) == IF key \in DOMAIN map THEN map[key] ELSE 0

EmptyMap == [k \in {} |-> 0]

----------------------------------------------------------------------------
(* User directory *)

Username(u) == u

Email(u) == u

----------------------------------------------------------------------------
(* models.py *)

(* django.utils.text.slugify on the definition names of the model *)
Slugify(name) ==
    CASE name = "Marker" -> "marker"
      [] name = "marker" -> "marker"
      [] OTHER           -> name

ValueRow(d, strain, definition) ==
    {v \in d.field_values : v.strain = strain /\ v.field_definition = definition}

DefinitionById(d, id) == CHOOSE f \in d.custom_fields : f.id = id

(* CustomFieldValue.display_value *)
display_value(field_type, cols) ==
    CASE field_type = "text"          -> cols["value_text"]
      [] field_type = "long_text"     -> cols["value_long_text"]
      [] field_type = "integer"       -> cols["value_integer"]
      [] field_type = "decimal"       -> cols["value_decimal"]
      [] field_type = "date"          -> cols["value_date"]
      [] field_type = "boolean"       ->
            IF cols["value_boolean"] = None THEN EmptyStr
            ELSE IF cols["value_boolean"] = <<"bool", 1>> THEN <<"str", StrYes>>
            ELSE <<"str", StrNo>>
      [] field_type = "single_select" -> cols["value_single_select"]
      [] field_type = "multi_select"  -> <<"str", JoinedStr(cols["value_multi_select"][2])>>
      [] field_type = "foreign_key"   ->
            IF cols["value_fk_content_type"] # None /\ cols["value_fk_object_id"] # None
            THEN <<"obj", cols["value_fk_object_id"][2]>>
            ELSE EmptyStr
      [] field_type = "file"          -> cols["value_file"]
      [] field_type = "url"           -> cols["value_url"]
      [] field_type = "email"         -> cols["value_email"]
      [] OTHER                        -> EmptyStr

(* ResearchDatabase.get_user_role; user 0 is the anonymous user *)
get_user_role(d, database, user) ==
    IF user = 0 THEN "none"
    ELSE LET ms == {m \in d.memberships : m.research_database = database /\ m.user = user}
         IN  IF ms = {} THEN "none" ELSE (CHOOSE m \in ms : TRUE).role

is_owner(d, database, user) == get_user_role(d, database, user) = "owner"

can_edit(d, database, user) == get_user_role(d, database, user) \in {"owner", "admin", "editor"}

can_view(d, database, user) == get_user_role(d, database, user) \in {"owner", "admin", "editor", "viewer"}

can_manage_members(d, database, user) == get_user_role(d, database, user) \in {"owner", "admin"}

----------------------------------------------------------------------------
(* snapshot.py: export *)

build_organization_snapshot(d) ==
    [ version       |-> SNAPSHOT_VERSION,
      organization  |-> d.organization,
      members       |-> {[user_id |-> m.user, username |-> Username(m.user),
                          email |-> Email(m.user), role |-> m.role] : m \in d.org_members},
      databases     |-> {[id |-> r.id, name |-> r.name, created_by_id |-> r.created_by]
                          : r \in d.databases},
      database_memberships |->
                        {[research_database_id |-> m.research_database, user_id |-> m.user,
                          username |-> Username(m.user), email |-> Email(m.user),
                          role |-> m.role] : m \in d.memberships},
      organisms     |-> {[id |-> r.id, research_database_id |-> r.research_database,
                          name |-> r.name] : r \in d.organisms},
      locations     |-> {[id |-> r.id, research_database_id |-> r.research_database,
                          box |-> r.box] : r \in d.locations},
      plasmids      |-> {[id |-> r.id, research_database_id |-> r.research_database,
                          name |-> r.name] : r \in d.plasmids},
      strains       |-> {[id |-> r.id, research_database_id |-> r.research_database,
                          strain_id |-> r.strain_id, organism_id |-> r.organism,
                          location_id |-> r.location, created_by_id |-> r.created_by,
                          is_active |-> r.is_active, is_archived |-> r.is_archived,
                          archived_at |-> r.archived_at, archived_by_id |-> r.archived_by]
                          : r \in d.strains},
      strain_plasmids |-> {[strain_id |-> r.strain, plasmid_id |-> r.plasmid]
                          : r \in d.strain_plasmids},
      custom_fields |-> {[id |-> r.id, research_database_id |-> r.research_database,
                          name |-> r.name, field_type |-> r.field_type,
                          created_by_id |-> r.created_by] : r \in d.custom_fields},
      field_values  |-> {[strain_id |-> v.strain, field_definition_id |-> v.field_definition,
                          value_text |-> v.cols["value_text"],
                          value_number |-> v.cols["value_number"],
                          value_date |-> v.cols["value_date"],
                          value_boolean |-> v.cols["value_boolean"],
                          value_choice |-> v.cols["value_choice"]] : v \in d.field_values},
      audit_logs    |-> {[id |-> l.id, database_id |-> l.database, user_id |-> l.user,
                          action |-> l.action, object_type |-> l.object_type,
                          object_id |-> l.object_id]
                          : l \in {x \in d.audit_logs : x.database # 0}} ]

----------------------------------------------------------------------------
(* snapshot.py: restore *)

(* a required key that is absent from a document row *)
Missing == "<missing>"

RECURSIVE FoldSeq(_, _, _)
FoldSeq(Op(_, _), acc, s) ==
    IF s = <<>> THEN acc ELSE FoldSeq(Op, Op(acc, Head(s)), Tail(s))

(* _resolve_user: by id, then username, then email, then the fallback *)
_resolve_user(user_id, username, email, fallback) ==
    IF user_id \in Users THEN user_id
    ELSE IF \E u \in Users : Username(u) = username
         THEN CHOOSE u \in Users : Username(u) = username
    ELSE IF \E u \in Users : Email(u) = email
         THEN CHOOSE u \in Users : Email(u) = email
    ELSE fallback

(* the version and organization checks at the head of restore_organization_snapshot *)
SnapshotAcceptedNoUuidCheck(d, doc) == doc.version = SNAPSHOT_VERSION

SnapshotAccepted(d, doc) ==
    /\ doc.version = SNAPSHOT_VERSION
    /\ doc.organization.uuid = d.organization.uuid

EmptyMaps ==
    [database |-> EmptyMap, organism |-> EmptyMap, location |-> EmptyMap,
     plasmid |-> EmptyMap, strain |-> EmptyMap, field |-> EmptyMap]

(* update_or_create / get_or_create of a DatabaseMembership *)
UpsertMembership(ms, database, user, role) ==
    {m \in ms : ~(m.research_database = database /\ m.user = user)}
        \cup {[research_database |-> database, user |-> user, role |-> role]}

(* signals.ensure_creator_owns_database: get_or_create with role owner *)
ensure_creator_owns_database(ms, database, created_by) ==
    IF created_by = 0 \/ \E m \in ms : m.research_database = database /\ m.user = created_by
    THEN ms
    ELSE ms \cup {[research_database |-> database, user |-> created_by, role |-> "owner"]}

Fail(w) == [w EXCEPT !.ok = FALSE]

(* the delete statements that open the transaction *)
RestoreDelete(w, doc, acting_user) ==
    [w EXCEPT !.tx.field_values = {},
              !.tx.strain_plasmids = {},
              !.tx.strains = {},
              !.tx.custom_fields = {},
              !.tx.audit_logs = {l \in @ : l.database = 0},
              !.tx.activity_logs = {},
              !.tx.memberships = {},
              !.tx.organisms = {},
              !.tx.locations = {},
              !.tx.plasmids = {},
              !.tx.databases = {}]

RestoreMemberStep(acting_user, w, r) ==
    LET user == _resolve_user(r.user_id, r.username, r.email, acting_user)
    IN  [w EXCEPT !.tx.org_members =
            {m \in @ : m.user # user} \cup {[user |-> user, role |-> r.role]}]

RestoreOrganization(w, doc, acting_user) ==
    LET named == [w EXCEPT !.tx.organization.name = doc.organization.name,
                           !.tx.organization.slug = doc.organization.slug]
    IN  FoldSeq(LAMBDA a, r : RestoreMemberStep(acting_user, a, r), named, RowsOf(doc.members))

RestoreDatabaseStep(acting_user, w, r) ==
    IF ~w.ok THEN w
    ELSE IF r.name = Missing THEN Fail(w)
    ELSE LET id == w.tx.seq.databases + 1
             created_by == _resolve_user(r.created_by_id, 0, 0, acting_user)
         IN  [w EXCEPT !.tx.databases = @ \cup {[id |-> id, name |-> r.name, created_by |-> created_by]},
                       !.tx.seq.databases = id,
                       !.tx.memberships = ensure_creator_owns_database(@, id, created_by),
                       !.maps.database = (r.id :> id) @@ @]

RestoreDatabases(w, doc, acting_user) ==
    FoldSeq(LAMBDA a, r : RestoreDatabaseStep(acting_user, a, r), w, RowsById(doc.databases))

RestoreMembershipStep(acting_user, w, r) ==
    LET database == Lookup(w.maps.database, r.research_database_id)
    IN  IF ~w.ok \/ database = 0 THEN w
        ELSE [w EXCEPT !.tx.memberships =
                UpsertMembership(@, database,
                    _resolve_user(r.user_id, r.username, r.email, acting_user), r.role)]

RestoreMemberships(w, doc, acting_user) ==
    FoldSeq(LAMBDA a, r : RestoreMembershipStep(acting_user, a, r), w,
            RowsOf(doc.database_memberships))

RestoreOrganismStep(w, r) ==
    LET database == Lookup(w.maps.database, r.research_database_id)
        id == w.tx.seq.organisms + 1
    IN  IF ~w.ok \/ database = 0 THEN w
        ELSE IF r.name = Missing THEN Fail(w)
        ELSE IF \E o \in w.tx.organisms : o.research_database = database /\ o.name = r.name
             THEN Fail(w)
        ELSE [w EXCEPT !.tx.organisms = @ \cup {[id |-> id, research_database |-> database, name |-> r.name]},
                       !.tx.seq.organisms = id,
                       !.maps.organism = (r.id :> id) @@ @]

RestoreOrganisms(w, doc, acting_user) ==
    FoldSeq(RestoreOrganismStep, w, RowsById(doc.organisms))

RestoreLocationStep(w, r) ==
    LET database == Lookup(w.maps.database, r.research_database_id)
        id == w.tx.seq.locations + 1
    IN  IF ~w.ok \/ database = 0 THEN w
        ELSE IF r.box = Missing THEN Fail(w)
        ELSE IF \E o \in w.tx.locations : o.research_database = database /\ o.box = r.box
             THEN Fail(w)
        ELSE [w EXCEPT !.tx.locations = @ \cup {[id |-> id, research_database |-> database, box |-> r.box]},
                       !.tx.seq.locations = id,
                       !.maps.location = (r.id :> id) @@ @]

RestoreLocations(w, doc, acting_user) ==
    FoldSeq(RestoreLocationStep, w, RowsById(doc.locations))

RestorePlasmidStep(w, r) ==
    LET database == Lookup(w.maps.database, r.research_database_id)
        id == w.tx.seq.plasmids + 1
    IN  IF ~w.ok \/ database = 0 THEN w
        ELSE IF r.name = Missing THEN Fail(w)
        ELSE IF \E o \in w.tx.plasmids : o.research_database = database /\ o.name = r.name
             THEN Fail(w)
        ELSE [w EXCEPT !.tx.plasmids = @ \cup {[id |-> id, research_database |-> database, name |-> r.name]},
                       !.tx.seq.plasmids = id,
                       !.maps.plasmid = (r.id :> id) @@ @]

RestorePlasmids(w, doc, acting_user) ==
    FoldSeq(RestorePlasmidStep, w, RowsById(doc.plasmids))

RestoreStrainStep(acting_user, w, r) ==
    LET database == Lookup(w.maps.database, r.research_database_id)
        organism == Lookup(w.maps.organism, r.organism_id)
        location == Lookup(w.maps.location, r.location_id)
        id == w.tx.seq.strains + 1
    IN  IF ~w.ok \/ database = 0 \/ organism = 0 \/ location = 0 THEN w
        ELSE IF r.strain_id = Missing THEN Fail(w)
        ELSE IF \E o \in w.tx.strains : o.research_database = database /\ o.strain_id = r.strain_id
             THEN Fail(w)
        ELSE [w EXCEPT !.tx.strains = @ \cup
                        {[id |-> id, research_database |-> database, strain_id |-> r.strain_id,
                          organism |-> organism, location |-> location,
                          created_by |-> _resolve_user(r.created_by_id, 0, 0, acting_user),
                          is_active |-> r.is_active, is_archived |-> r.is_archived,
                          archived_at |-> r.archived_at,
                          archived_by |-> _resolve_user(r.archived_by_id, 0, 0, 0)]},
                       !.tx.seq.strains = id,
                       !.maps.strain = (r.id :> id) @@ @]

RestoreStrains(w, doc, acting_user) ==
    FoldSeq(LAMBDA a, r : RestoreStrainStep(acting_user, a, r), w, RowsById(doc.strains))

RestoreStrainPlasmidStep(w, r) ==
    LET strain == Lookup(w.maps.strain, r.strain_id)
        plasmid == Lookup(w.maps.plasmid, r.plasmid_id)
    IN  IF ~w.ok \/ strain = 0 \/ plasmid = 0 THEN w
        ELSE [w EXCEPT !.tx.strain_plasmids = @ \cup {[strain |-> strain, plasmid |-> plasmid]}]

RestoreStrainPlasmids(w, doc, acting_user) ==
    FoldSeq(RestoreStrainPlasmidStep, w, RowsOf(doc.strain_plasmids))

(* CustomFieldDefinition.objects.create(research_database, name, field_type, choices,
   created_by): every other attribute takes the model default, save() derives the key *)
RestoreFieldStep(acting_user, w, r) ==
    LET database == Lookup(w.maps.database, r.research_database_id)
        id == w.tx.seq.custom_fields + 1
    IN  IF ~w.ok \/ database = 0 THEN w
        ELSE IF r.name = Missing THEN Fail(w)
        ELSE IF \E o \in w.tx.custom_fields :
                    /\ o.research_database = database
                    /\ (o.name = r.name \/ o.key = Slugify(r.name))
             THEN Fail(w)
        ELSE [w EXCEPT !.tx.custom_fields = @ \cup
                        {[id |-> id, research_database |-> database, name |-> r.name,
                          key |-> Slugify(r.name), field_type |-> r.field_type,
                          is_unique |-> FALSE, visible_to_roles |-> {},
                          editable_to_roles |-> {}, conditional_logic |-> EmptyLogic,
                          default_value |-> EmptyDefault,
                          created_by |-> _resolve_user(r.created_by_id, 0, 0, acting_user)]},
                       !.tx.activity_logs = log_activity(@, database, acting_user,
                                                         "CustomFieldDefinition", id, "create"),
                       !.tx.seq.custom_fields = id,
                       !.maps.field = (r.id :> id) @@ @]

RestoreFields(w, doc, acting_user) ==
    FoldSeq(LAMBDA a, r : RestoreFieldStep(acting_user, a, r), w, RowsById(doc.custom_fields))

(* CustomFieldValue.objects.update_or_create with the five exported columns *)
RestoreValueStep(w, r) ==
    LET strain == Lookup(w.maps.strain, r.strain_id)
        field == Lookup(w.maps.field, r.field_definition_id)
        old == ValueRow(w.tx, strain, field)
        base == IF old = {} THEN BlankColumns ELSE (CHOOSE v \in old : TRUE).cols
        cols == [base EXCEPT !["value_text"] = r.value_text,
                             !["value_number"] = r.value_number,
                             !["value_date"] = r.value_date,
                             !["value_boolean"] = r.value_boolean,
                             !["value_choice"] = r.value_choice]
    IN  IF ~w.ok \/ strain = 0 \/ field = 0 THEN w
        ELSE [w EXCEPT !.tx.field_values = (@ \ old) \cup
                        {[strain |-> strain, field_definition |-> field, cols |-> cols]}]

RestoreValues(w, doc, acting_user) ==
    FoldSeq(RestoreValueStep, w, RowsOf(doc.field_values))

RestoreAuditLogStep(w, r) ==
    LET id == w.tx.seq.audit_logs + 1
    IN  IF ~w.ok THEN w
        ELSE [w EXCEPT !.tx.audit_logs = @ \cup
                        {[id |-> id, database |-> Lookup(w.maps.database, r.database_id),
                          user |-> _resolve_user(r.user_id, 0, 0, 0), action |-> r.action,
                          object_type |-> r.object_type, object_id |-> r.object_id]},
                       !.tx.seq.audit_logs = id]

RestoreAuditLogs(w, doc, acting_user) ==
    FoldSeq(RestoreAuditLogStep, w, RowsById(doc.audit_logs))

(* the synthetic entry that records the restore itself *)
RestoreFinalEntry(w, doc, acting_user) ==
    LET id == w.tx.seq.audit_logs + 1
    IN  [w EXCEPT !.tx.audit_logs = @ \cup
                    {[id |-> id, database |-> 0, user |-> acting_user,
                      action |-> "organization_snapshot_restore",
                      object_type |-> "Organization", object_id |-> 1]},
                  !.tx.seq.audit_logs = id]

Stages == <<"delete", "organization", "databases", "database_memberships", "organisms",
            "locations", "plasmids", "strains", "strain_plasmids", "custom_fields",
            "field_values", "audit_logs", "final_entry">>

RunStage(stage, w, doc, acting_user) ==
    CASE stage = "delete"               -> RestoreDelete(w, doc, acting_user)
      [] stage = "organization"         -> RestoreOrganization(w, doc, acting_user)
      [] stage = "databases"            -> RestoreDatabases(w, doc, acting_user)
      [] stage = "database_memberships" -> RestoreMemberships(w, doc, acting_user)
      [] stage = "organisms"            -> RestoreOrganisms(w, doc, acting_user)
      [] stage = "locations"            -> RestoreLocations(w, doc, acting_user)
      [] stage = "plasmids"             -> RestorePlasmids(w, doc, acting_user)
      [] stage = "strains"              -> RestoreStrains(w, doc, acting_user)
      [] stage = "strain_plasmids"      -> RestoreStrainPlasmids(w, doc, acting_user)
      [] stage = "custom_fields"        -> RestoreFields(w, doc, acting_user)
      [] stage = "field_values"         -> RestoreValues(w, doc, acting_user)
      [] stage = "audit_logs"           -> RestoreAuditLogs(w, doc, acting_user)
      [] stage = "final_entry"          -> RestoreFinalEntry(w, doc, acting_user)

----------------------------------------------------------------------------
(* Documents handed to restore: the organization's own export, as is or altered *)

Tamperings == {"none", "bad_version", "foreign_uuid", "missing_key", "duplicate_row"}

Tamper(t, doc) ==
    CASE t = "none"          -> doc
      [] t = "bad_version"   -> [doc EXCEPT !.version = "0.9"]
      [] t = "foreign_uuid"  -> [doc EXCEPT !.organization.uuid = 2]
      [] t = "missing_key"   -> [doc EXCEPT !.organisms = {[r EXCEPT !.name = Missing] : r \in @}]
      [] t = "duplicate_row" -> [doc EXCEPT !.strains = @ \cup {[r EXCEPT !.id = r.id + 100] : r \in @}]

RestoreCount(d) ==
    Cardinality({l \in d.audit_logs : l.action = "organization_snapshot_restore"})

(* what the committed store shows while the transaction is open, and after it aborts *)
VisibleWithoutTransaction(committed, working) == working

Visible(committed, working) == committed

----------------------------------------------------------------------------
(* restore_organization_snapshot, step by step *)

RestoreCall(t, user) ==
    /\ restore.pc = "idle"
    /\ RestoreCount(db) < MaxRestores
    /\ restore' = [pc |-> "called", tamper |-> t, acting_user |-> user, stage |-> 1,
                   doc |-> Tamper(t, build_organization_snapshot(db)),
                   w |-> [ok |-> TRUE, tx |-> db, maps |-> EmptyMaps],
                   pre |-> db]
    /\ last' = NoOp
    /\ UNCHANGED <<db, run>>

RestoreValidate ==
    /\ restore.pc = "called"
    /\ restore' = [restore EXCEPT !.pc = IF SnapshotAccepted(db, restore.doc)
                                         THEN "atomic" ELSE "raised"]
    /\ UNCHANGED <<db, last, run>>

RestoreStage ==
    /\ restore.pc = "atomic"
    /\ LET w2 == RunStage(Stages[restore.stage], restore.w, restore.doc, restore.acting_user)
       IN  /\ restore' = [restore EXCEPT
                            !.w = w2,
                            !.stage = @ + 1,
                            !.pc = IF ~w2.ok THEN "failed"
                                   ELSE IF restore.stage = Len(Stages) THEN "commit"
                                   ELSE "atomic"]
           /\ db' = Visible(db, w2.tx)
    /\ UNCHANGED <<last, run>>

RestoreCommit ==
    /\ restore.pc = "commit"
    /\ db' = restore.w.tx
    /\ restore' = [restore EXCEPT !.pc = "done"]
    /\ UNCHANGED <<last, run>>

(* the call returns, or its exception reaches the caller *)
RestoreReturn ==
    /\ restore.pc \in {"raised", "failed", "done"}
    /\ restore' = IdleRestore
    /\ UNCHANGED <<db, last, run>>

----------------------------------------------------------------------------
(* views.py: membership management *)

(* DatabaseMembersView.post *)
MembersPost(actor, database, user, role) ==
    /\ restore.pc = "idle"
    /\ can_manage_members(db, database, actor)
    /\ db' = [db EXCEPT !.memberships = UpsertMembership(@, database, user, role)]
    /\ last' = NoOp
    /\ UNCHANGED <<restore, run>>

(* DatabaseMembershipRemoveView.post *)
MembershipRemove(actor, database, user) ==
    /\ restore.pc = "idle"
    /\ can_manage_members(db, database, actor)
    /\ \E m \in db.memberships :
          /\ m.research_database = database /\ m.user = user
          /\ m.role # "owner"
          /\ db' = [db EXCEPT !.memberships = @ \ {m}]
    /\ last' = NoOp
    /\ UNCHANGED <<restore, run>>

DatabaseIds == {r.id : r \in db.databases}

----------------------------------------------------------------------------
(* Custom field definitions *)

DefNames == {"Marker", "marker"}

(* rank of a name in ORDER BY name (byte order) *)
NameRank(name) ==
    CASE name = "AB" -> 1
      [] name = "DB" -> 2
      [] name = "Marker" -> 3
      [] OTHER -> 4

(* INSERT of a CustomFieldDefinition; save() derives the key from the name when it
   is blank; unique_together (research_database, name), (research_database, key) *)
InsertDefinition(d, database, user, name, key, field_type, is_unique, visible, editable) ==
    LET id == d.seq.custom_fields + 1
        k == IF key = "" THEN Slugify(name) ELSE key
    IN  IF \E f \in d.custom_fields :
                f.research_database = database /\ (f.name = name \/ f.key = k)
        THEN d
        ELSE [d EXCEPT !.custom_fields = @ \cup
                        {[id |-> id, research_database |-> database, name |-> name, key |-> k,
                          field_type |-> field_type, is_unique |-> is_unique,
                          visible_to_roles |-> visible, editable_to_roles |-> editable,
                          conditional_logic |-> EmptyLogic,
                          default_value |-> EmptyDefault, created_by |-> user]},
                       !.activity_logs = log_activity(@, database, user,
                                                      "CustomFieldDefinition", id, "create"),
                       !.seq.custom_fields = id]

(* CustomFieldDefinitionCreateView.form_valid: the form carries name, field_type, choices *)
DefinitionCreateView(user, database, name, field_type) ==
    /\ restore.pc = "idle"
    /\ can_edit(db, database, user)
    /\ Cardinality(db.custom_fields) < MaxDefs
    /\ db' = InsertDefinition(db, database, user, name, "", field_type, FALSE, {}, {})
    /\ db' # db
    /\ last' = NoOp
    /\ UNCHANGED <<restore, run>>

(* CustomFieldDefinitionAdmin add view: every attribute of the definition is editable;
   DatabaseScopedAdmin.has_add_permission admits the roles admin and editor *)
DefinitionAdminAdd(user, database, name, key, field_type, is_unique, visible, editable) ==
    /\ restore.pc = "idle"
    /\ get_user_role(db, database, user) \in {"admin", "editor"}
    /\ Cardinality(db.custom_fields) < MaxDefs
    /\ db' = InsertDefinition(db, database, user, name, key, field_type, is_unique, visible, editable)
    /\ db' # db
    /\ last' = NoOp
    /\ UNCHANGED <<restore, run>>

----------------------------------------------------------------------------
(* dynamic_forms.py *)

(* _role_for_user *)
_role_for_user(d, user, database) ==
    IF user = 0 THEN "none"
    ELSE LET ms == {m \in d.memberships : m.research_database = database /\ m.user = user}
         IN  IF ms = {} THEN "none" ELSE (CHOOSE m \in ms : TRUE).role

(* build_dynamic_custom_fields: the definitions that get a form field for this user *)
DynamicVisible(definition, role) ==
    ~(definition.visible_to_roles # {} /\ role \notin definition.visible_to_roles)

DynamicEditable(definition, role) ==
    definition.editable_to_roles = {} \/ role \in definition.editable_to_roles

build_dynamic_custom_fields(d, database, user) ==
    {f \in d.custom_fields :
        /\ f.research_database = database
        /\ DynamicVisible(f, _role_for_user(d, user, database))
        /\ f.field_type \in FieldTypes}

(* the emptiness test at the head of the loop of save_dynamic_custom_values:
   value in (None, '', []) *)
(* value in (None, '', []): the row is deleted instead of written *)
DynamicIsEmptyOnlyNone(value) == value = None

DynamicIsEmpty(value) == value \in {None, EmptyStr, EmptyList}

(* varchar(255) columns: the INSERT/UPDATE of a longer string raises a DataError *)
ColumnsFit(cols) ==
    /\ cols["value_choice"] = None \/ cols["value_choice"][2] <= ChoiceMaxLength
    /\ cols["value_single_select"] = None \/ cols["value_single_select"][2] <= ChoiceMaxLength

(* the columns save_dynamic_custom_values assigns for a non-empty value *)
DynamicColumns(field_type, old, value) ==
    LET cleared == [c \in Columns |->
                      IF c = "value_multi_select" THEN EmptyList
                      ELSE IF c = "value_file" THEN old[c]
                      ELSE None]
    IN  CASE field_type = "text"          -> [cleared EXCEPT !["value_text"] = value]
          [] field_type = "long_text"     -> [cleared EXCEPT !["value_long_text"] = value]
          [] field_type = "integer"       -> [cleared EXCEPT !["value_integer"] = <<"int", value[2]>>,
                                                             !["value_number"] = <<"float", value[2]>>]
          [] field_type = "decimal"       -> [cleared EXCEPT !["value_decimal"] = <<"dec", value[2]>>]
          [] field_type = "date"          -> [cleared EXCEPT !["value_date"] = value]
          [] field_type = "boolean"       -> [cleared EXCEPT !["value_boolean"] =
                                                <<"bool", IF value[2] # 0 THEN 1 ELSE 0>>]
          [] field_type = "single_select" -> [cleared EXCEPT !["value_single_select"] = value,
                                                             !["value_choice"] = value]
          [] field_type = "multi_select"  -> [cleared EXCEPT !["value_multi_select"] = <<"list", value[2]>>]
          [] field_type = "url"           -> [cleared EXCEPT !["value_url"] = value]
          [] field_type = "email"         -> [cleared EXCEPT !["value_email"] = value]
          [] field_type = "file"          -> [cleared EXCEPT !["value_file"] =
                                                IF value = Cleared THEN <<"file", 0>> ELSE value]
          [] field_type = "foreign_key"   -> [cleared EXCEPT !["value_fk_content_type"] = <<"ct", 1>>,
                                                             !["value_fk_object_id"] = <<"int", value[2]>>]

(* one iteration of the loop of save_dynamic_custom_values; every statement is
   committed on its own, so a failing UPDATE leaves the row get_or_create inserted *)
DynamicSaveStep(strain, cleaned, w, definition) ==
    LET value == cleaned[definition.id]
        old == ValueRow(w.tx, strain, definition.id)
        base == IF old = {} THEN BlankColumns ELSE (CHOOSE v \in old : TRUE).cols
        cols == DynamicColumns(definition.field_type, base, value)
        row(c) == [strain |-> strain, field_definition |-> definition.id, cols |-> c]
    IN  IF ~w.ok THEN w
        ELSE IF DynamicIsEmpty(value)
             THEN [w EXCEPT !.tx.field_values = @ \ old]
        ELSE IF ~ColumnsFit(cols)
             THEN [w EXCEPT !.ok = FALSE, !.tx.field_values = (@ \ old) \cup {row(base)}]
        ELSE [w EXCEPT !.tx.field_values = (@ \ old) \cup {row(cols)}]

save_dynamic_custom_values(d, strain, cleaned, entries) ==
    FoldSeq(LAMBDA a, f : DynamicSaveStep(strain, cleaned, a, f),
            [ok |-> TRUE, tx |-> d], RowsById(entries))

(* the cleaned values a valid submission can carry for a field of each type *)
DynamicSubmissions(d, database, field_type) ==
    CASE field_type \in {"text", "long_text", "url", "email"} -> {EmptyStr, <<"str", 1>>}
      [] field_type = "integer"       -> {None, <<"int", 12>>}
      [] field_type = "decimal"       -> {None, <<"dec", 15>>}
      [] field_type = "date"          -> {None, <<"date", 1>>}
      [] field_type = "boolean"       -> {<<"bool", 0>>, <<"bool", 1>>}
      [] field_type = "single_select" -> {EmptyStr, <<"str", 1>>, <<"str", LongChoice>>}
      [] field_type = "multi_select"  -> {EmptyList, <<"list", 1>>}
      [] field_type = "file"          -> {None, Cleared, <<"file", 1>>}
      [] field_type = "foreign_key"   ->
            {None} \cup {<<"obj", r.id>> : r \in {x \in d.plasmids : x.research_database = database}}

CleanedData(d, database, entries, Submissions(_, _, _)) ==
    {c \in [{f.id : f \in entries} -> UNION {Submissions(d, database, f.field_type) : f \in entries}] :
        \A f \in entries : c[f.id] \in Submissions(d, database, f.field_type)}

(* a strain form built by build_dynamic_custom_fields and saved by
   save_dynamic_custom_values; cleaned is form.cleaned_data, which for a disabled
   field is the cleaned initial value, one of the same submissions *)
DynamicFormSave(user, strain, cleaned) ==
    /\ restore.pc = "idle"
    /\ \E s \in db.strains :
          /\ s.id = strain
          /\ can_edit(db, s.research_database, user)
          /\ LET entries == build_dynamic_custom_fields(db, s.research_database, user)
                 w == save_dynamic_custom_values(db, strain, cleaned, entries)
             IN  /\ entries # {}
                 /\ cleaned \in CleanedData(db, s.research_database, entries, DynamicSubmissions)
                 /\ db' = w.tx
                 /\ last' = [op |-> "dynamic_save", user |-> user, strain |-> strain,
                             created |-> FALSE,
                             had |-> {v.field_definition : v \in
                                        {x \in db.field_values : x.strain = strain}},
                             fields |-> {f.id : f \in entries},
                             cleaned |-> cleaned, ok |-> w.ok]
    /\ UNCHANGED <<restore, run>>

----------------------------------------------------------------------------
(* forms.py: StrainForm *)

LegacyTypes == {"text", NUMBER, "date", "boolean", CHOICE}

(* helpers.get_custom_field_definitions: StrainForm.custom_field_definitions *)
get_custom_field_definitions(d, database) ==
    {f \in d.custom_fields : f.research_database = database}

(* StrainForm._add_dynamic_custom_fields: the definitions that get a form field *)
StrainFormFields(d, database, user) ==
    {f \in get_custom_field_definitions(d, database) : f.field_type \in LegacyTypes}

StrainFormSubmissions(d, database, field_type) ==
    CASE field_type = "text"    -> {EmptyStr, <<"str", 1>>}
      [] field_type = NUMBER    -> {None, <<"float", 12>>}
      [] field_type = "date"    -> {None, <<"date", 1>>}
      [] field_type = "boolean" -> {<<"bool", 0>>, <<"bool", 1>>}
      [] field_type = CHOICE    -> {EmptyStr, <<"str", 1>>, <<"str", LongChoice>>}

(* is_empty of StrainForm.save_custom_field_values; BOOLEAN is never treated as empty *)
StrainFormDeletes(field_type, value) ==
    value \in {None, EmptyStr} /\ field_type # "boolean"

StrainFormColumns(field_type, old, value) ==
    LET cleared == [old EXCEPT !["value_text"] = None, !["value_number"] = None,
                               !["value_date"] = None, !["value_boolean"] = None,
                               !["value_choice"] = None]
    IN  CASE field_type = "text"    -> [cleared EXCEPT !["value_text"] = value]
          [] field_type = NUMBER    -> [cleared EXCEPT !["value_number"] = value]
          [] field_type = "date"    -> [cleared EXCEPT !["value_date"] = value]
          [] field_type = "boolean" -> [cleared EXCEPT !["value_boolean"] =
                                          <<"bool", IF value[2] # 0 THEN 1 ELSE 0>>]
          [] field_type = CHOICE    -> [cleared EXCEPT !["value_choice"] = value]

StrainFormSaveStep(strain, cleaned, w, definition) ==
    LET value == IF definition.id \in DOMAIN cleaned THEN cleaned[definition.id] ELSE None
        old == ValueRow(w.tx, strain, definition.id)
        base == IF old = {} THEN BlankColumns ELSE (CHOOSE v \in old : TRUE).cols
        cols == StrainFormColumns(definition.field_type, base, value)
        row(c) == [strain |-> strain, field_definition |-> definition.id, cols |-> c]
    IN  IF ~w.ok THEN w
        ELSE IF StrainFormDeletes(definition.field_type, value)
             THEN [w EXCEPT !.tx.field_values = @ \ old]
        ELSE IF ~ColumnsFit(cols)
             THEN [w EXCEPT !.ok = FALSE, !.tx.field_values = (@ \ old) \cup {row(base)}]
        ELSE [w EXCEPT !.tx.field_values = (@ \ old) \cup {row(cols)}]

(* definitions in ORDER BY name, id *)
RECURSIVE RowsByName(_)
RowsByName(S) ==
    IF S = {} THEN <<>>
    ELSE LET r == CHOOSE x \in S : \A y \in S :
                     \/ NameRank(x.name) < NameRank(y.name)
                     \/ (NameRank(x.name) = NameRank(y.name) /\ x.id <= y.id)
         IN  <<r>> \o RowsByName(S \ {r})

save_custom_field_values(d, strain, cleaned, definitions) ==
    FoldSeq(LAMBDA a, f : StrainFormSaveStep(strain, cleaned, a, f),
            [ok |-> TRUE, tx |-> d], RowsByName(definitions))

StrainIds == {"S1", "S2"}

(* StrainCreateView with StrainForm: clean_strain_id, clean, save; no plasmid selected *)
StrainCreate(user, database, strain_id, organism, location, cleaned) ==
    /\ restore.pc = "idle"
    /\ can_edit(db, database, user)
    /\ Cardinality(db.strains) < MaxStrains
    /\ ~\E s \in db.strains : s.research_database = database /\ s.strain_id = strain_id
    /\ \E o \in db.organisms : o.id = organism /\ o.research_database = database
    /\ \E l \in db.locations : l.id = location /\ l.research_database = database
    /\ LET id == db.seq.strains + 1
           fields == StrainFormFields(db, database, user)
           saved == [db EXCEPT !.strains = @ \cup
                        {[id |-> id, research_database |-> database, strain_id |-> strain_id,
                          organism |-> organism, location |-> location, created_by |-> user,
                          is_active |-> TRUE, is_archived |-> FALSE, archived_at |-> 0,
                          archived_by |-> 0]},
                     !.seq.strains = id]
           w == save_custom_field_values(saved, id, cleaned,
                                         get_custom_field_definitions(db, database))
       IN  /\ cleaned \in CleanedData(db, database, fields, StrainFormSubmissions)
           /\ db' = w.tx
           /\ last' = [op |-> "strain_form", user |-> user, strain |-> id, created |-> TRUE,
                       had |-> {},
                       fields |-> {f.id : f \in fields},
                       cleaned |-> cleaned, ok |-> w.ok]
    /\ UNCHANGED <<restore, run>>

(* StrainUpdateView with StrainForm, the standard fields and plasmids resubmitted
   unchanged *)
StrainUpdate(user, strain, cleaned) ==
    /\ restore.pc = "idle"
    /\ \E s \in db.strains :
          /\ s.id = strain /\ s.is_active /\ ~s.is_archived
          /\ can_edit(db, s.research_database, user)
          /\ LET fields == StrainFormFields(db, s.research_database, user)
                 w == save_custom_field_values(db, strain, cleaned,
                          get_custom_field_definitions(db, s.research_database))
             IN  /\ cleaned \in CleanedData(db, s.research_database, fields, StrainFormSubmissions)
                 /\ db' = w.tx
                 /\ last' = [op |-> "strain_form", user |-> user, strain |-> strain,
                             created |-> FALSE,
                             had |-> {v.field_definition : v \in
                                        {x \in db.field_values : x.strain = strain}},
                             fields |-> {f.id : f \in fields},
                             cleaned |-> cleaned, ok |-> w.ok]
    /\ UNCHANGED <<restore, run>>


Init ==
    /\ db = Fixture
    /\ restore = IdleRestore
    /\ last = NoOp
    /\ run = IdleRun

RestoreNext ==
    \/ \E t \in Tamperings, u \in Users : RestoreCall(t, u)
    \/ RestoreValidate
    \/ RestoreStage
    \/ RestoreCommit
    \/ RestoreReturn

SnapshotNext ==
    \/ RestoreNext
    \/ \E a \in Users, d \in DatabaseIds, u \in Users, r \in Roles : MembersPost(a, d, u, r)
    \/ \E a \in Users, d \in DatabaseIds, u \in Users : MembershipRemove(a, d, u)
    \/ \E u \in Users, d \in DatabaseIds, n \in DefNames, t \in FieldTypes :
            DefinitionCreateView(u, d, n, t)
    \/ \E u \in Users, s \in db.strains :
          \E c \in CleanedData(db, s.research_database,
                               build_dynamic_custom_fields(db, s.research_database, u),
                               DynamicSubmissions) :
            DynamicFormSave(u, s.id, c)

SnapshotSpec == Init /\ [][SnapshotNext]_vars

(* the attribute combinations the admin add view is exercised with *)
AdminProfiles ==
    {[is_unique |-> FALSE, visible |-> {}, editable |-> {}],
     [is_unique |-> TRUE, visible |-> {}, editable |-> {}],
     [is_unique |-> FALSE, visible |-> {"owner"}, editable |-> {"editor"}],
     [is_unique |-> FALSE, visible |-> {"editor"}, editable |-> {"owner"}]}

FormNext ==
    \/ \E u \in Users, d \in DatabaseIds, n \in DefNames, t \in FieldTypes, a \in AdminProfiles :
            DefinitionAdminAdd(u, d, n, "", t, a.is_unique, a.visible, a.editable)
    \/ \E u \in Users, s \in db.strains :
          \E c \in CleanedData(db, s.research_database,
                               build_dynamic_custom_fields(db, s.research_database, u),
                               DynamicSubmissions) :
            DynamicFormSave(u, s.id, c)
    \/ \E u \in Users, d \in DatabaseIds, i \in StrainIds,
          o \in {r.id : r \in db.organisms}, l \in {r.id : r \in db.locations} :
          \E c \in CleanedData(db, d, StrainFormFields(db, d, u), StrainFormSubmissions) :
            StrainCreate(u, d, i, o, l, c)
    \/ \E u \in Users, s \in db.strains :
          \E c \in CleanedData(db, s.research_database,
                               StrainFormFields(db, s.research_database, u),
                               StrainFormSubmissions) :
            StrainUpdate(u, s.id, c)

FormSpec == Init /\ [][FormNext]_vars

----------------------------------------------------------------------------
(* Properties: snapshot restore *)

(* the document of the running call fails the checks of lines 189-194 against the
   organization the call was given *)
DocumentRejected ==
    \/ restore.doc.version # SNAPSHOT_VERSION
    \/ restore.doc.organization.uuid # restore.pre.organization.uuid

(* C1: a restore called with a document of another version, or of another
   organization, raises before any mutation: from the call until it returns no
   step changes the stored data, and the call goes nowhere but to the raise. *)
C1_RejectedSnapshotWritesNothing ==
    [][(restore.pc # "idle" /\ DocumentRejected)
          => (db' = db /\ db = restore.pre /\ restore'.pc \in {"raised", "idle"})]_vars

(* a foreign-uuid document of the supported version was refused while the
   organization held strains and databases the restore would have deleted *)
C1_Witness ==
    /\ restore.pc = "raised"
    /\ restore.doc.version = SNAPSHOT_VERSION
    /\ restore.doc.organization.uuid # db.organization.uuid
    /\ db.strains # {} /\ db.databases # {} /\ db.memberships # {}

(* C2: restore is all-or-nothing: while its transaction is open, and after it
   has failed, the stored data every reader sees is the data of before the call;
   once it has committed, the stored data is the complete result of all stages. *)
C2_RestoreAllOrNothing ==
    /\ restore.pc \in {"atomic", "commit", "failed"} => db = restore.pre
    /\ restore.pc = "done" => (restore.w.ok /\ db = restore.w.tx /\ restore.stage = Len(Stages) + 1)

(* a restore failed after its deletes and some re-creation had run inside the
   transaction *)
C2_Witness ==
    /\ restore.pc = "failed"
    /\ restore.stage > 5
    /\ restore.w.tx.strains = {} /\ db.strains # {}
    /\ restore.w.tx.databases # {} /\ restore.w.tx.databases # db.databases

(* the first export with every primary key replaced by the key restore gave the
   re-created row, and without the audit-log ids *)
RenameDoc(doc, maps) ==
    [doc EXCEPT
        !.databases = {[r EXCEPT !.id = Lookup(maps.database, r.id)] : r \in @},
        !.database_memberships =
            {[r EXCEPT !.research_database_id = Lookup(maps.database, r.research_database_id)] : r \in @},
        !.organisms = {[r EXCEPT !.id = Lookup(maps.organism, r.id),
                                 !.research_database_id = Lookup(maps.database, r.research_database_id)] : r \in @},
        !.locations = {[r EXCEPT !.id = Lookup(maps.location, r.id),
                                 !.research_database_id = Lookup(maps.database, r.research_database_id)] : r \in @},
        !.plasmids = {[r EXCEPT !.id = Lookup(maps.plasmid, r.id),
                                !.research_database_id = Lookup(maps.database, r.research_database_id)] : r \in @},
        !.strains = {[r EXCEPT !.id = Lookup(maps.strain, r.id),
                               !.research_database_id = Lookup(maps.database, r.research_database_id),
                               !.organism_id = Lookup(maps.organism, r.organism_id),
                               !.location_id = Lookup(maps.location, r.location_id)] : r \in @},
        !.strain_plasmids = {[strain_id |-> Lookup(maps.strain, r.strain_id),
                              plasmid_id |-> Lookup(maps.plasmid, r.plasmid_id)] : r \in @},
        !.custom_fields = {[r EXCEPT !.id = Lookup(maps.field, r.id),
                                     !.research_database_id = Lookup(maps.database, r.research_database_id)] : r \in @},
        !.field_values = {[r EXCEPT !.strain_id = Lookup(maps.strain, r.strain_id),
                                    !.field_definition_id = Lookup(maps.field, r.field_definition_id)] : r \in @},
        !.audit_logs = {[r EXCEPT !.id = 0,
                                  !.database_id = Lookup(maps.database, r.database_id)] : r \in @}]

WithoutAuditIds(doc) == [doc EXCEPT !.audit_logs = {[r EXCEPT !.id = 0] : r \in @}]

(* a restore of the organization's own export has committed *)
OwnExportRestored ==
    /\ restore.pc = "done"
    /\ restore.doc = build_organization_snapshot(restore.pre)

(* C3: after restore(org, export(org)) has committed, a second export equals the
   first one, primary keys renamed and timestamps left out. *)
C3_ExportRestoreExport ==
    OwnExportRestored =>
        WithoutAuditIds(build_organization_snapshot(db)) = RenameDoc(restore.doc, restore.w.maps)

(* C4: after restore(org, export(org)) has committed, every (strain, definition)
   that read a value before the export reads the same value, through the
   definition's field_type, from the re-created rows. *)
C4_ValuesSurviveRestore ==
    OwnExportRestored =>
        \A v \in restore.pre.field_values :
            LET definition == DefinitionById(restore.pre, v.field_definition)
                rows == ValueRow(db, Lookup(restore.w.maps.strain, v.strain),
                                 Lookup(restore.w.maps.field, v.field_definition))
                before == display_value(definition.field_type, v.cols)
            IN  /\ rows # {}
                /\ \A n \in rows :
                      display_value(DefinitionById(db, n.field_definition).field_type, n.cols)
                          = IF before[1] = "obj"
                            THEN <<"obj", Lookup(restore.w.maps.plasmid, before[2])>>
                            ELSE before

----------------------------------------------------------------------------
(* Properties: strain forms and custom values *)

(* a strain form was built and saved by the last step *)
FormSaved == last.op \in {"strain_form", "dynamic_save"}

(* C5: a definition with a non-empty visible_to_roles never has a field in the
   strain form built for a user whose role is not in that list, whatever its
   editable_to_roles. *)
C5_HiddenFieldNotInForm ==
    FormSaved =>
        \A id \in last.fields :
            LET f == DefinitionById(db, id)
            IN  \/ f.visible_to_roles = {}
                \/ _role_for_user(db, last.user, f.research_database) \in f.visible_to_roles

(* the value a row holds for its definition, None and '' standing for no value *)
HeldValue(d, v) == display_value(DefinitionById(d, v.field_definition).field_type, v.cols)

(* C6: no two records of one database hold equal values for an is_unique
   definition. *)
C6_UniqueValuesDistinct ==
    \A v1 \in db.field_values, v2 \in db.field_values :
        (/\ v1.field_definition = v2.field_definition
         /\ v1.strain # v2.strain
         /\ DefinitionById(db, v1.field_definition).is_unique
         /\ HeldValue(db, v1) \notin {None, EmptyStr})
            => HeldValue(db, v1) # HeldValue(db, v2)

(* C7: a form save that fails while the custom values are written leaves nothing
   behind: neither the record row nor any value row is created, changed or
   deleted. *)
C7_FailedSaveLeavesNothing ==
    [][(last'.op \in {"strain_form", "dynamic_save"} /\ ~last'.ok) => db' = db]_vars

(* an absent (None), blank ('') or empty ([]) submission *)
EmptySubmission(value) == value \in {None, EmptyStr, EmptyList}

(* C8: after a successful save, a non-boolean field of the form that was
   submitted empty has no value row for the record, and a BOOLEAN field submitted
   False has a row whose value_boolean is False. *)
C8_EmptyRemovesRowFalseKeepsIt ==
    (FormSaved /\ last.ok) =>
        \A id \in last.fields :
            LET f == DefinitionById(db, id)
                rows == ValueRow(db, last.strain, id)
            IN  IF f.field_type = "boolean"
                THEN last.cleaned[id] = <<"bool", 0>> =>
                        (rows # {} /\ \A v \in rows : v.cols["value_boolean"] = <<"bool", 0>>)
                ELSE EmptySubmission(last.cleaned[id]) => rows = {}

(* a save removed the row a record had for a non-boolean field submitted empty *)
C8_Witness ==
    /\ FormSaved /\ last.ok
    /\ \E id \in last.fields \cap last.had :
          /\ DefinitionById(db, id).field_type # "boolean"
          /\ EmptySubmission(last.cleaned[id])
          /\ ValueRow(db, last.strain, id) = {}

(* the typed column of each field type, as CustomFieldValue.display_value reads it *)
TypedColumn(field_type) ==
    CASE field_type = "text"          -> "value_text"
      [] field_type = "long_text"     -> "value_long_text"
      [] field_type = "integer"       -> "value_integer"
      [] field_type = "decimal"       -> "value_decimal"
      [] field_type = "date"          -> "value_date"
      [] field_type = "boolean"       -> "value_boolean"
      [] field_type = "single_select" -> "value_single_select"
      [] field_type = "multi_select"  -> "value_multi_select"
      [] field_type = "foreign_key"   -> "value_fk_object_id"
      [] field_type = "file"          -> "value_file"
      [] field_type = "url"           -> "value_url"
      [] field_type = "email"         -> "value_email"

(* the columns of a row that hold a value; value_fk_content_type accompanies
   value_fk_object_id and is not counted on its own *)
Populated(cols) ==
    {c \in Columns \ {"value_fk_content_type"} :
        cols[c] \notin {None, EmptyList, EmptyStr, <<"file", 0>>}}

(* C9: every value row has exactly one populated typed column, the one that
   matches the field_type of its definition. *)
C9_ExactlyOneTypedColumn ==
    \A v \in db.field_values :
        Populated(v.cols) = {TypedColumn(DefinitionById(db, v.field_definition).field_type)}

(* C10: after save_values has stored a submitted value, reloading the record
   yields that value with its type. *)
C10_SavedValueReloads ==
    (last.op = "dynamic_save" /\ last.ok) =>
        \A id \in last.fields :
            ~EmptySubmission(last.cleaned[id]) =>
                \A v \in ValueRow(db, last.strain, id) : HeldValue(db, v) = last.cleaned[id]

----------------------------------------------------------------------------
(* Conditional fields: a definition with conditional_logic, and the strain form
   that saves its value *)

(* the condition of tests_custom_fields.py: selective_marker equals AMP *)
MarkerIsAmp ==
    [kind |-> "map", field |-> "selective_marker", operator |-> "equals", value |-> AMP]

(* the conditional_logic values the admin add view is exercised with *)
LogicChoices ==
    {EmptyLogic,
     [kind |-> "map", operator |-> "AND",
      conditions |-> [kind |-> "list", items |-> <<MarkerIsAmp>>]]}

(* CustomFieldDefinitionAdmin add view with the conditional_logic JSON filled in *)
DefinitionAdminAddLogic(user, database, name, field_type, logic) ==
    /\ restore.pc = "idle"
    /\ get_user_role(db, database, user) \in {"admin", "editor"}
    /\ Cardinality(db.custom_fields) < MaxDefs
    /\ LET d == InsertDefinition(db, database, user, name, "", field_type, FALSE, {}, {})
       IN  /\ d # db
           /\ db' = [d EXCEPT !.custom_fields =
                       {IF f.id = d.seq.custom_fields
                        THEN [f EXCEPT !.conditional_logic = logic] ELSE f : f \in @}]
    /\ last' = NoOp
    /\ UNCHANGED <<restore, run>>

(* form.cleaned_data as evaluate_condition_logic reads it: the standard field
   selective_marker and one custom_<key> entry per dynamic field *)
FormValues(entries, cleaned, marker) ==
    [k \in {"selective_marker"} \cup {CustomKey(f.key) : f \in entries} |->
        IF k = "selective_marker" THEN marker
        ELSE cleaned[(CHOOSE f \in entries : CustomKey(f.key) = k).id]]

(* a strain form submitted with the standard field selective_marker set to marker;
   the custom values are saved by save_dynamic_custom_values *)
DynamicFormSubmit(user, strain, cleaned, marker) ==
    /\ restore.pc = "idle"
    /\ \E s \in db.strains :
          /\ s.id = strain
          /\ can_edit(db, s.research_database, user)
          /\ LET entries == build_dynamic_custom_fields(db, s.research_database, user)
                 w == save_dynamic_custom_values(db, strain, cleaned, entries)
             IN  /\ entries # {}
                 /\ cleaned \in CleanedData(db, s.research_database, entries, DynamicSubmissions)
                 /\ db' = w.tx
                 /\ last' = [op |-> "dynamic_submit", user |-> user, strain |-> strain,
                             before |-> {x \in db.field_values : x.strain = strain},
                             entries |-> entries,
                             values |-> FormValues(entries, cleaned, marker),
                             cleaned |-> cleaned, ok |-> w.ok]
    /\ UNCHANGED <<restore, run>>

ConditionNext ==
    \/ \E u \in Users, d \in DatabaseIds, n \in DefNames, t \in FieldTypes, l \in LogicChoices :
            DefinitionAdminAddLogic(u, d, n, t, l)
    \/ \E u \in Users, s \in db.strains, m \in {AMP, KAN} :
          \E c \in CleanedData(db, s.research_database,
                               build_dynamic_custom_fields(db, s.research_database, u),
                               DynamicSubmissions) :
            DynamicFormSubmit(u, s.id, c, m)

ConditionSpec == Init /\ [][ConditionNext]_vars

(* the fields of the last submitted form whose conditional_logic evaluates to false
   against the submitted values *)
ConditionFalse ==
    {f \in last.entries : evaluate_condition_logic(f.conditional_logic, last.values) = "False"}

(* C11: a field whose conditional logic evaluates to false against the submitted
   values is left alone by the save: its stored row for the record is the row (or
   the absence of a row) from before the save *)
C11_FalseConditionLeavesRow ==
    last.op = "dynamic_submit" =>
        \A f \in ConditionFalse :
            ValueRow(db, last.strain, f.id)
              = {x \in last.before : x.field_definition = f.id}

----------------------------------------------------------------------------
(* import_utils.py: CSV import *)

(* str.lower() of the names and strain ids the model uses (iexact lookups) *)
NameLower(s) ==
    CASE s \in {"E. coli", "e. coli"} -> "e. coli"
      [] s \in {"Yeast", "yeast"} -> "yeast"
      [] s \in {"S1", "s1"} -> "s1"
      [] s \in {"S2", "s2"} -> "s2"
      [] s \in {"N1", "n1"} -> "n1"
      [] s \in {"N2", "n2"} -> "n2"
      [] OTHER -> s

(* the __iexact lookup *)
IExact(a, b) == NameLower(a) = NameLower(b)

(* parse_location_value: the string itself when it starts with 'Box ', else None *)
parse_location_value(raw_value) ==
    IF raw_value \in {"Box 1 A1", "Box 2 B4"} THEN <<"str", raw_value>> ELSE None

REQUIRED_IMPORT_FIELDS == {"strain_id", "organism", "genotype", "location"}

(* validate_import_row: the set of error kinds (the rows carry no custom: columns) *)
validate_import_row(mapped_row) ==
    {f \in REQUIRED_IMPORT_FIELDS : mapped_row[f] = ""}
      \cup (IF mapped_row["location"] # "" /\ parse_location_value(mapped_row["location"]) = None
            THEN {"location_format"} ELSE {})

(* one mapped CSV row *)
Row(strain_id, organism, genotype, location) ==
    [strain_id |-> strain_id, organism |-> organism, genotype |-> genotype,
     location |-> location]

(* the uploads the import is exercised with: the duplicate pair of tests.py 463-499
   (ids equal ignoring case), the auto-created organism of tests.py 417-455 named by
   two rows, an existing strain id, an invalid row ahead of a valid one, and rows
   that name the existing organism *)
Batches ==
    {<<Row("N1", "Yeast", "WT", "Box 1 A1"), Row("n1", "Yeast", "WT", "Box 1 A1")>>,
     <<Row("N1", "Yeast", "WT", "Box 1 A1"), Row("N2", "yeast", "WT", "Box 2 B4")>>,
     <<Row("N2", "yeast", "WT", "Box 1 A1")>>,
     <<Row("S1", "E. coli", "WT", "Box 1 A1"), Row("N1", "E. coli", "WT", "Box 1 A1")>>,
     <<Row("N1", "E. coli", "", "Shelf 2"), Row("", "E. coli", "WT", "Box 1 A1"),
       Row("N2", "Yeast", "WT", "Box 1 A1")>>}

(* the writes of a transaction or savepoint that are not committed yet *)
NoWrites == [organisms |-> {}, audit_logs |-> {}, strains |-> {}]

Merge(a, b) ==
    [organisms |-> a.organisms \cup b.organisms,
     audit_logs |-> a.audit_logs \cup b.audit_logs,
     strains |-> a.strains \cup b.strains]

(* leaving the inner transaction.atomic() with an exception: ROLLBACK TO SAVEPOINT *)
RollbackKeepsWrites(outer, tx) == Merge(outer, tx)

RollbackToSavepoint(outer, tx) == outer

(* leaving the inner transaction.atomic() normally: RELEASE SAVEPOINT *)
ReleaseSavepoint(outer, tx) == Merge(outer, tx)

(* what worker p reads: the committed rows and its own pending writes *)
Pending(p) == IF run[p].pc = "idle" THEN NoWrites ELSE Merge(run[p].outer, run[p].tx)

VisibleOrganisms(p) == db.organisms \cup Pending(p).organisms

VisibleStrains(p) == db.strains \cup Pending(p).strains

(* the next value of a primary key sequence: above every committed row and apart
   from every pending one (a value drawn for a row that was rolled back is never
   seen again, so the model hands it out anew) *)
NextId(committed, counter, pending) ==
    LET base == Max({counter} \cup {r.id : r \in committed})
        taken == {r.id : r \in pending}
    IN  CHOOSE n \in (base + 1)..(base + 1 + Cardinality(taken)) :
            /\ n \notin taken
            /\ \A m \in (base + 1)..(n - 1) : m \in taken

PendingAll == [organisms |-> UNION {Pending(q).organisms : q \in Procs},
               audit_logs |-> UNION {Pending(q).audit_logs : q \in Procs},
               strains |-> UNION {Pending(q).strains : q \in Procs}]

(* Model.__init__ assigns a foreign key through its descriptor, which raises a
   ValueError for anything that is not a model instance *)
AssignableToForeignKey(value) == value[1] = "obj"

NoOrganism == [id |-> 0, research_database |-> 0, name |-> ""]

(* the row after the one at position i, or the end of the loop *)
NextRow(r) ==
    [r EXCEPT !.i = @ + 1,
              !.tx = NoWrites,
              !.organism_exists = FALSE,
              !.organism = NoOrganism,
              !.pc = IF r.i = Len(r.rows) THEN "commit" ELSE "check"]

(* skipped_count += 1; continue  (the savepoint is released) *)
Skip(r) ==
    NextRow([r EXCEPT !.skipped = @ + 1, !.outer = ReleaseSavepoint(r.outer, r.tx)])

(* an exception leaves the with block: the savepoint is rolled back, then
   except Exception: skipped_count += 1; continue *)
Raise(r) ==
    NextRow([r EXCEPT !.skipped = @ + 1, !.undone = @ \/ r.tx # NoWrites,
                      !.outer = RollbackToSavepoint(r.outer, r.tx)])

(* CSVUploadView.post, action confirm_import: import_strains_from_csv_rows is called *)
(* undone and unknown record the run for the properties: whether a savepoint with
   writes was rolled back, and the organism names the organism_exists query missed *)
ImportStart(p, user, database, rows) ==
    /\ restore.pc = "idle"
    /\ run[p].pc = "idle"
    /\ can_edit(db, database, user)
    /\ run' = [run EXCEPT ![p] =
                 [pc |-> "check", user |-> user, database |-> database, rows |-> rows,
                  i |-> 1, created |-> 0, skipped |-> 0, outer |-> NoWrites,
                  tx |-> NoWrites, undone |-> FALSE, unknown |-> {},
                  organism_exists |-> FALSE, organism |-> NoOrganism]]
    /\ last' = NoOp
    /\ UNCHANGED <<db, restore>>

(* lines 159-182: the checks that skip a row, then the organism_exists query *)
ImportCheck(p) ==
    /\ run[p].pc = "check"
    /\ LET r == run[p]
           mapped_row == r.rows[r.i]
       IN  run' = [run EXCEPT ![p] =
                IF mapped_row.strain_id = "" THEN Skip(r)
                ELSE IF \E x \in VisibleStrains(p) :
                            /\ x.research_database = r.database
                            /\ IExact(x.strain_id, mapped_row.strain_id)
                     THEN Skip(r)
                ELSE IF validate_import_row(mapped_row) # {} THEN Skip(r)
                ELSE IF parse_location_value(mapped_row.location) = None THEN Skip(r)
                ELSE LET organism_exists ==
                            \E o \in VisibleOrganisms(p) :
                                /\ o.research_database = r.database
                                /\ IExact(o.name, mapped_row.organism)
                     IN  [r EXCEPT !.pc = "lookup",
                                   !.organism_exists = organism_exists,
                                   !.unknown = IF organism_exists THEN @
                                               ELSE @ \cup {NameLower(mapped_row.organism)}]]
    /\ UNCHANGED <<db, restore, last>>

(* the rows resolve_fk's filter(name__iexact=value) matches *)
Matches(p, database, value) ==
    {o \in VisibleOrganisms(p) : o.research_database = database /\ IExact(o.name, value)}

(* resolve_fk, lines 121-123: the lookup before the INSERT *)
ImportLookup(p) ==
    /\ run[p].pc = "lookup"
    /\ LET r == run[p]
           existing == Matches(p, r.database, r.rows[r.i].organism)
       IN  run' = [run EXCEPT ![p] =
                IF existing # {}
                THEN [r EXCEPT !.pc = "strain", !.organism = RowsById(existing)[1]]
                ELSE [r EXCEPT !.pc = "create"]]
    /\ UNCHANGED <<db, restore, last>>

(* the database engines of settings.py *)
Backends == {"sqlite3", "postgresql"}

(* resolve_fk, lines 125-128: the INSERT under unique (research_database, name).  An
   INSERT that meets another worker's uncommitted row of the same name waits for that
   worker.  After an IntegrityError the second lookup answers on sqlite3; on
   postgresql the transaction is aborted until the savepoint is rolled back and the
   lookup raises *)
ImportCreate(p, backend) ==
    /\ run[p].pc = "create"
    /\ LET r == run[p]
           value == r.rows[r.i].organism
           created == [id |-> NextId(db.organisms, db.seq.organisms, PendingAll.organisms),
                       research_database |-> r.database, name |-> value]
       IN  /\ ~\E q \in Procs \ {p} : \E o \in Pending(q).organisms :
                  o.research_database = r.database /\ o.name = value
           /\ run' = [run EXCEPT ![p] =
                IF \E o \in db.organisms : o.research_database = r.database /\ o.name = value
                THEN IF backend = "postgresql" THEN Raise(r)
                     ELSE [r EXCEPT !.pc = "strain",
                                    !.organism = RowsById(Matches(p, r.database, value))[1]]
                ELSE [r EXCEPT !.pc = "strain", !.organism = created,
                               !.tx.organisms = @ \cup {created}]]
    /\ UNCHANGED <<db, restore, last>>

(* lines 188-237: the AUTO_CREATE_ORGANISM entry, then Strain.objects.create with
   organism=organism.name and location=<the parsed string>, then created_count += 1 *)
ImportStrain(p) ==
    /\ run[p].pc = "strain"
    /\ LET r == run[p]
           mapped_row == r.rows[r.i]
           entry == [id |-> NextId(db.audit_logs, db.seq.audit_logs, PendingAll.audit_logs),
                     database |-> r.database, user |-> r.user,
                     action |-> "AUTO_CREATE_ORGANISM", object_type |-> "Organism",
                     object_id |-> r.organism.id]
           audited == IF r.organism_exists THEN r
                      ELSE [r EXCEPT !.tx.audit_logs = @ \cup {entry}]
           organism == <<"str", r.organism.name>>
           location == parse_location_value(mapped_row.location)
           strain == [id |-> NextId(db.strains, db.seq.strains, PendingAll.strains),
                      research_database |-> r.database, strain_id |-> mapped_row.strain_id,
                      organism |-> organism[2], location |-> location[2],
                      created_by |-> r.user, is_active |-> TRUE, is_archived |-> FALSE,
                      archived_at |-> 0, archived_by |-> 0]
       IN  run' = [run EXCEPT ![p] =
                IF ~AssignableToForeignKey(organism) \/ ~AssignableToForeignKey(location)
                THEN Raise(audited)
                ELSE IF \E x \in db.strains \cup PendingAll.strains :
                            /\ x.research_database = r.database
                            /\ x.strain_id = mapped_row.strain_id
                     THEN Raise(audited)
                ELSE NextRow([audited EXCEPT
                                !.created = @ + 1,
                                !.outer = ReleaseSavepoint(audited.outer,
                                             [audited.tx EXCEPT !.strains = @ \cup {strain}])])]
    /\ UNCHANGED <<db, restore, last>>

(* the outer transaction.atomic() of line 155 commits *)
ImportCommit(p) ==
    /\ run[p].pc = "commit"
    /\ LET w == run[p].outer
       IN  db' = [db EXCEPT
                    !.organisms = @ \cup w.organisms,
                    !.audit_logs = @ \cup w.audit_logs,
                    !.strains = @ \cup w.strains,
                    !.seq.organisms = Max({@} \cup {o.id : o \in w.organisms}),
                    !.seq.audit_logs = Max({@} \cup {l.id : l \in w.audit_logs}),
                    !.seq.strains = Max({@} \cup {x.id : x \in w.strains})]
    /\ run' = [run EXCEPT ![p].pc = "done", ![p].outer = NoWrites]
    /\ UNCHANGED <<restore, last>>

(* return created_count, skipped_count *)
ImportReturn(p) ==
    /\ run[p].pc = "done"
    /\ last' = [op |-> "import", created |-> run[p].created, skipped |-> run[p].skipped]
    /\ run' = [run EXCEPT ![p] = [pc |-> "idle"]]
    /\ UNCHANGED <<db, restore>>

(* the organism names the admin site adds while imports run *)
OrganismNames == {"Yeast", "yeast"}

(* OrganismAdmin add view: an INSERT under unique (research_database, name), which
   waits for an uncommitted row of the same name *)
OrganismAdminAdd(user, database, name) ==
    /\ restore.pc = "idle"
    /\ get_user_role(db, database, user) \in {"admin", "editor"}
    /\ Cardinality(db.organisms) < MaxOrganisms
    /\ ~\E o \in db.organisms \cup PendingAll.organisms :
            o.research_database = database /\ o.name = name
    /\ LET id == NextId(db.organisms, db.seq.organisms, PendingAll.organisms)
       IN  db' = [db EXCEPT !.organisms = @ \cup
                     {[id |-> id, research_database |-> database, name |-> name]},
                            !.seq.organisms = id]
    /\ last' = NoOp
    /\ UNCHANGED <<restore, run>>

ImportNext ==
    \/ \E p \in Procs, d \in DatabaseIds, b \in Batches : ImportStart(p, p, d, b)
    \/ \E p \in Procs : ImportCheck(p)
    \/ \E p \in Procs : ImportLookup(p)
    \/ \E p \in Procs, e \in Backends : ImportCreate(p, e)
    \/ \E p \in Procs : ImportStrain(p)
    \/ \E p \in Procs : ImportCommit(p)
    \/ \E p \in Procs : ImportReturn(p)
    \/ \E u \in Users, d \in DatabaseIds, n \in OrganismNames : OrganismAdminAdd(u, d, n)

ImportSpec == Init /\ [][ImportNext]_vars

----------------------------------------------------------------------------
(* Properties: CSV import *)

(* a row that passes every check of lines 159-176 on its own *)
ValidRow(mapped_row) ==
    /\ mapped_row.strain_id # ""
    /\ validate_import_row(mapped_row) = {}
    /\ parse_location_value(mapped_row.location) # None

(* two valid rows whose strain ids are equal ignoring case *)
DuplicatePair(rows) ==
    /\ Len(rows) = 2
    /\ ValidRow(rows[1]) /\ ValidRow(rows[2])
    /\ IExact(rows[1].strain_id, rows[2].strain_id)

(* the organisms of the database whose name is n ignoring case *)
Named(n) == {o \in db.organisms : NameLower(o.name) = n}

(* the AUTO_CREATE_ORGANISM entries written for the organisms of S *)
AutoCreateEntries(S) ==
    {l \in db.audit_logs : /\ l.action = "AUTO_CREATE_ORGANISM"
                           /\ l.object_type = "Organism"
                           /\ l.object_id \in {o.id : o \in S}}

(* C12: an import whose two rows carry strain ids equal ignoring case, of which no
   strain exists yet, creates the first row and skips the second (created 1,
   skipped 1), and no two strains of a database share an id ignoring case *)
C12_DuplicateRowSkipped ==
    /\ \A p \in Procs :
          (/\ run[p].pc = "done"
           /\ DuplicatePair(run[p].rows)
           /\ ~\E x \in Fixture.strains : IExact(x.strain_id, run[p].rows[1].strain_id))
          => (run[p].created = 1 /\ run[p].skipped = 1)
    /\ \A x, y \in db.strains :
          (x.research_database = y.research_database /\ IExact(x.strain_id, y.strain_id))
          => x = y

(* C13: when an import has finished, every organism name that no organism matched
   when a valid row named it exists exactly once, carries exactly one
   AUTO_CREATE_ORGANISM entry and is the organism of an imported strain, and no such
   entry exists for any other organism *)
C13_UnknownOrganismCreatedOnce ==
    \A p \in Procs :
        run[p].pc = "done" =>
            /\ \A n \in run[p].unknown :
                  /\ Cardinality(Named(n)) = 1
                  /\ Cardinality(AutoCreateEntries(Named(n))) = 1
                  /\ \E x \in db.strains : x.organism \in {o.id : o \in Named(n)}
            /\ AutoCreateEntries(db.organisms)
                  = UNION {AutoCreateEntries(Named(n)) : n \in run[p].unknown}

(* C14: a step of an import that counts a row as skipped keeps none of the row's
   writes (the pending writes of the import are those from before the row and the
   committed tables are untouched), keeps the rows created so far, and moves on to
   the next row; when the loop ends every row has been counted once *)
C14_RowsIsolated ==
    [][\A p \in Procs :
          (/\ run[p].pc \in {"check", "lookup", "create", "strain"}
           /\ run'[p].pc # "idle"
           /\ run'[p].skipped = run[p].skipped + 1)
          => /\ run'[p].outer = run[p].outer
             /\ run'[p].tx = NoWrites
             /\ db' = db
             /\ run'[p].created = run[p].created
             /\ run'[p].i = run[p].i + 1
             /\ run'[p].pc = IF run[p].i = Len(run[p].rows) THEN "commit" ELSE "check"
             /\ (run'[p].pc = "commit"
                   => run'[p].created + run'[p].skipped = Len(run[p].rows))]_vars

(* an import that rolled back a row which had written (an auto-created organism and
   its entry), went on to the rows after it, and finished *)
C14_Witness ==
    \E p \in Procs :
        /\ run[p].pc = "done"
        /\ run[p].undone
        /\ Len(run[p].rows) >= 2
        /\ run[p].created + run[p].skipped = Len(run[p].rows)

(* C15: when two imports that ran at the same time have both finished and both named,
   in a valid row, the same organism that did not exist (ignoring case), both rows
   were imported and exactly one organism of that name exists *)
C15_ConcurrentLookupCreate ==
    \A p, q \in Procs :
        (/\ p # q
         /\ run[p].pc = "done" /\ run[q].pc = "done")
        => \A n \in run[p].unknown \cap run[q].unknown :
              /\ run[p].created >= 1 /\ run[q].created >= 1
              /\ Cardinality(Named(n)) = 1

----------------------------------------------------------------------------
(* Concurrent writers of one CustomFieldValue.  In this specification a value row
   carries its primary key pk, because Model.save() addresses the row by it. *)

(* the rows of unique_strain_custom_field_value's key *)
KeyRows(strain, definition) ==
    {x \in db.field_values : x.strain = strain /\ x.field_definition = definition}

(* the instances the workers hold in memory *)
HeldRows == {run[q].fetched : q \in {w \in Procs : run[w].pc \in {"save", "failed", "saved"}}}

(* the next value of the primary key sequence of the value table (a value no row
   and no held instance carries) *)
NextPk ==
    LET taken == {x.pk : x \in db.field_values} \cup {x.pk : x \in HeldRows}
    IN  CHOOSE n \in 1..(Cardinality(taken) + 1) :
            n \notin taken /\ \A m \in 1..(n - 1) : m \in taken

NoRow == [strain |-> 0, field_definition |-> 0, cols |-> BlankColumns, pk |-> 0]

(* a form save reaches the loop body of save_dynamic_custom_values for one field *)
ValueSaveStart(p, strain, definition, value) ==
    /\ restore.pc = "idle"
    /\ run[p].pc = "idle"
    /\ \E s \in db.strains :
          /\ s.id = strain
          /\ can_edit(db, s.research_database, p)
          /\ \E f \in build_dynamic_custom_fields(db, s.research_database, p) :
                /\ f.id = definition
                /\ value \in DynamicSubmissions(db, s.research_database, f.field_type)
    /\ run' = [run EXCEPT ![p] =
                 [pc |-> IF DynamicIsEmpty(value) THEN "delete" ELSE "get",
                  strain |-> strain, definition |-> definition, value |-> value,
                  fetched |-> NoRow, refetched |-> FALSE, error |-> "none"]]
    /\ last' = NoOp
    /\ UNCHANGED <<db, restore>>

(* line 150: filter(strain, field_definition).delete() *)
ValueDelete(p) ==
    /\ run[p].pc = "delete"
    /\ db' = [db EXCEPT !.field_values = @ \ KeyRows(run[p].strain, run[p].definition)]
    /\ run' = [run EXCEPT ![p].pc = "saved"]
    /\ UNCHANGED <<restore, last>>

(* line 153, get_or_create: the SELECT *)
ValueGet(p) ==
    /\ run[p].pc = "get"
    /\ LET rows == KeyRows(run[p].strain, run[p].definition)
       IN  run' = [run EXCEPT ![p] =
                IF rows # {} THEN [@ EXCEPT !.pc = "save", !.fetched = CHOOSE x \in rows : TRUE]
                ELSE [@ EXCEPT !.pc = "create"]]
    /\ UNCHANGED <<db, restore, last>>

(* get_or_create catches the IntegrityError of a lost INSERT and returns the row
   that won *)
CreateRefetches(r, existing) ==
    [r EXCEPT !.pc = "save", !.fetched = existing, !.refetched = TRUE]

(* line 153, get_or_create: the INSERT after a SELECT that found nothing *)
ValueCreate(p) ==
    /\ run[p].pc = "create"
    /\ LET rows == KeyRows(run[p].strain, run[p].definition)
           row == [strain |-> run[p].strain, field_definition |-> run[p].definition,
                   cols |-> BlankColumns, pk |-> NextPk]
       IN  IF rows # {}
           THEN /\ run' = [run EXCEPT ![p] = CreateRefetches(@, CHOOSE x \in rows : TRUE)]
                /\ UNCHANGED db
           ELSE /\ db' = [db EXCEPT !.field_values = @ \cup {row}]
                /\ run' = [run EXCEPT ![p].pc = "save", ![p].fetched = row]
    /\ UNCHANGED <<restore, last>>

(* lines 154-198: the columns are assigned and custom_value.save() runs: an UPDATE by
   primary key, and an INSERT of the instance when the UPDATE matched no row *)
ValueSave(p) ==
    /\ run[p].pc = "save"
    /\ LET r == run[p]
           f == DefinitionById(db, r.definition)
           cols == DynamicColumns(f.field_type, r.fetched.cols, r.value)
           row == [r.fetched EXCEPT !.cols = cols]
           stored == {x \in db.field_values : x.pk = r.fetched.pk}
       IN  IF ~ColumnsFit(cols)
           THEN /\ run' = [run EXCEPT ![p].pc = "failed", ![p].error = "DataError"]
                /\ UNCHANGED db
           ELSE IF stored # {}
           THEN /\ db' = [db EXCEPT !.field_values = (@ \ stored) \cup {row}]
                /\ run' = [run EXCEPT ![p].pc = "saved"]
           ELSE IF KeyRows(r.strain, r.definition) # {}
           THEN /\ run' = [run EXCEPT ![p].pc = "failed", ![p].error = "IntegrityError"]
                /\ UNCHANGED db
           ELSE /\ db' = [db EXCEPT !.field_values = @ \cup {row}]
                /\ run' = [run EXCEPT ![p].pc = "saved"]
    /\ UNCHANGED <<restore, last>>

(* the request ends, with a response or with the exception *)
ValueReturn(p) ==
    /\ run[p].pc \in {"saved", "failed"}
    /\ last' = [op |-> "value_save", error |-> run[p].error]
    /\ run' = [run EXCEPT ![p] = [pc |-> "idle"]]
    /\ UNCHANGED <<db, restore>>

(* RestoreVersionView.post: a snapshot made by serialize_strain_snapshot holds the
   primary keys of organism and location, and setattr(strain, field_name, <int>) on a
   foreign key raises ValueError at line 1008 inside the atomic block, before the
   value rows of lines 1024-1042 are touched (without a version the view answers 404) *)
RestoreVersionPost(user, strain) ==
    /\ restore.pc = "idle"
    /\ \E s \in db.strains : s.id = strain /\ s.is_active
                             /\ can_edit(db, s.research_database, user)
    /\ ~AssignableToForeignKey(<<"int", 1>>)
    /\ last' = [op |-> "restore_version", error |-> "ValueError"]
    /\ UNCHANGED <<db, restore, run>>

ValueNext ==
    \/ \E u \in Users, d \in DatabaseIds, n \in DefNames, t \in FieldTypes :
            DefinitionCreateView(u, d, n, t)
    \/ \E p \in Procs, s \in db.strains, f \in db.custom_fields :
          \E v \in DynamicSubmissions(db, s.research_database, f.field_type) :
            ValueSaveStart(p, s.id, f.id, v)
    \/ \E p \in Procs : ValueDelete(p)
    \/ \E p \in Procs : ValueGet(p)
    \/ \E p \in Procs : ValueCreate(p)
    \/ \E p \in Procs : ValueSave(p)
    \/ \E p \in Procs : ValueReturn(p)
    \/ \E u \in Users, s \in db.strains : RestoreVersionPost(u, s.id)

ValueSpec == Init /\ [][ValueNext]_vars

(* C16: at most one value row exists per (record, definition), and no writer ends
   with the uniqueness violation of a lost creation race: it goes on with the row
   that exists *)
C16_OneRowLoserRefetches ==
    /\ \A x, y \in db.field_values :
          (x.strain = y.strain /\ x.field_definition = y.field_definition) => x = y
    /\ \A p \in Procs :
          run[p].pc = "failed" => run[p].error # "IntegrityError"

----------------------------------------------------------------------------
(* evaluate_condition_logic as a function: the trees and values it is applied to *)

MarkerIsKan ==
    [kind |-> "map", field |-> "selective_marker", operator |-> "equals", value |-> KAN]

(* a condition that is a JSON string, not an object *)
NotAMapping == [kind |-> "string", field |-> "", operator |-> Absent, value |-> None]

ConditionChoices == {MarkerIsAmp, MarkerIsKan, NotAMapping}

LogicOperators == {Absent, "AND", "and", "OR", "or", "XOR", ANumber}

(* the sequences over S of length at most n *)
SeqsUpTo(S, n) == UNION {[1..k -> S] : k \in 0..n}

(* the values of the conditions key: missing, a number, a string, or a list *)
ConditionLists ==
    {[kind |-> k, items |-> <<>>] : k \in {"absent", "number"}}
      \cup {[kind |-> "string", items |-> <<NotAMapping>>]}
      \cup {[kind |-> "list", items |-> c] : c \in SeqsUpTo(ConditionChoices, MaxConditions)}

(* None, {}, a JSON array, and the objects over the operators and condition lists *)
LogicTrees ==
    {[kind |-> k, operator |-> Absent, conditions |-> [kind |-> "absent", items |-> <<>>]] :
        k \in {"none", "empty", "list"}}
      \cup {[kind |-> "map", operator |-> o, conditions |-> c] :
               o \in LogicOperators, c \in ConditionLists}

(* the submitted values of tests_custom_fields.py 114-115 *)
LogicValues == {[selective_marker |-> AMP], [selective_marker |-> KAN]}

LogicInit ==
    /\ db = Fixture
    /\ restore = IdleRestore
    /\ run = IdleRun
    /\ last \in {[op |-> "logic", logic |-> l, values |-> v, result |-> "pending"] :
                    l \in LogicTrees, v \in LogicValues}

(* the call evaluate_condition_logic(logic, values) *)
Evaluate ==
    /\ last.op = "logic"
    /\ last.result = "pending"
    /\ last' = [last EXCEPT !.result = evaluate_condition_logic(last.logic, last.values)]
    /\ UNCHANGED <<db, restore, run>>

LogicNext == Evaluate

LogicSpec == LogicInit /\ [][LogicNext]_vars

(* the tree is absent or malformed: None, empty, not a mapping, without a usable
   conditions list, or with a condition that is not a mapping *)
Malformed(logic) ==
    \/ logic.kind # "map"
    \/ logic.conditions.kind # "list"
    \/ logic.conditions.items = <<>>
    \/ \E i \in DOMAIN logic.conditions.items : logic.conditions.items[i].kind # "map"

(* C17: evaluate_condition_logic never raises, and returns True for every absent or
   malformed tree *)
C17_MalformedTreeIsTrue ==
    (last.op = "logic" /\ last.result # "pending") =>
        /\ last.result # "raises"
        /\ Malformed(last.logic) => last.result = "True"

(* C18: for a tree with a list of conditions and a string or absent operator, the
   conditions are combined with OR exactly when the operator equals OR ignoring
   case, and with AND for every other operator *)
C18_OrOnlyWhenOperatorIsOr ==
    (/\ last.op = "logic" /\ last.result # "pending"
     /\ ~Malformed(last.logic)
     /\ last.logic.operator # ANumber) =>
        LET results == [i \in DOMAIN last.logic.conditions.items |->
                          EvaluateCondition(last.logic.conditions.items[i], last.values)]
            isOr == last.logic.operator \in {"OR", "or", "Or", "oR"}
        IN  last.result = IF (IF isOr THEN AnyOf(results) ELSE AllOf(results))
                          THEN "True" ELSE "False"

----------------------------------------------------------------------------
(* permissions.py: DatabasePermissionMixin *)

(* the accounts ensure_admins creates with is_superuser = True *)
Superusers == {3}

Accounts == Users \cup Superusers

(* the required_permission values of the views, and a name the map does not know *)
Permissions == {"view", "edit", "manage_members", "owner", "admin", "export"}

(* get_active_database that takes the session's database without looking for the
   user's membership *)
GetActiveDatabaseTrustSession(d, user, session) ==
    LET mine == {m.research_database : m \in {x \in d.memberships : x.user = user}}
    IN  IF user = 0 THEN [kind |-> "none", id |-> 0]
        ELSE IF session \in {r.id : r \in d.databases}
             THEN [kind |-> "database", id |-> session]
        ELSE IF mine # {}
             THEN [kind |-> "database",
                   id |-> (RowsByName({x \in d.databases : x.id \in mine})[1]).id]
        ELSE [kind |-> "redirect", id |-> 0]

(* helpers.get_active_database: None for an anonymous request, the session's database
   when the user is a member of it, else the first database the user is a member of,
   else a redirect to database creation *)
get_active_database(d, user, session) ==
    LET mine == {m.research_database : m \in {x \in d.memberships : x.user = user}}
    IN  IF user = 0 THEN [kind |-> "none", id |-> 0]
        ELSE IF session \in mine THEN [kind |-> "database", id |-> session]
        ELSE IF mine # {}
             THEN [kind |-> "database",
                   id |-> (RowsByName({x \in d.databases : x.id \in mine})[1]).id]
        ELSE [kind |-> "redirect", id |-> 0]

(* has_database_permission with an unknown permission name admitted *)
HasDatabasePermissionFailOpen(d, database, user, required_permission) ==
    CASE required_permission = "view" -> can_view(d, database, user)
      [] required_permission = "edit" -> can_edit(d, database, user)
      [] required_permission = "manage_members" -> can_manage_members(d, database, user)
      [] required_permission = "owner" -> is_owner(d, database, user)
      [] required_permission = "admin" -> get_user_role(d, database, user) = "admin"
      [] OTHER -> TRUE

has_database_permission(d, database, user, required_permission) ==
    CASE required_permission = "view" -> can_view(d, database, user)
      [] required_permission = "edit" -> can_edit(d, database, user)
      [] required_permission = "manage_members" -> can_manage_members(d, database, user)
      [] required_permission = "owner" -> is_owner(d, database, user)
      [] required_permission = "admin" -> get_user_role(d, database, user) = "admin"
      [] OTHER -> FALSE

(* DatabasePermissionMixin.dispatch: the response is the redirect, a 403, or the
   view's own handler *)
Dispatch(user, session, required_permission) ==
    /\ restore.pc = "idle"
    /\ LET database == get_active_database(db, user, session)
       IN  last' = [op |-> "dispatch", user |-> user, database |-> database.id,
                    permission |-> required_permission,
                    outcome |-> IF database.kind = "redirect" THEN "redirect"
                                ELSE IF database.kind = "none" THEN "forbidden"
                                ELSE IF ~has_database_permission(db, database.id, user,
                                                                 required_permission)
                                     THEN "forbidden"
                                ELSE "dispatched"]
    /\ UNCHANGED <<db, restore, run>>

PermissionNext ==
    \/ \E a \in Accounts, d \in DatabaseIds, u \in Accounts, r \in Roles : MembersPost(a, d, u, r)
    \/ \E a \in Accounts, d \in DatabaseIds, u \in Accounts : MembershipRemove(a, d, u)
    \/ \E u \in Accounts \cup {0}, d \in DatabaseIds, q \in Permissions : Dispatch(u, d, q)

PermissionSpec == Init /\ [][PermissionNext]_vars

(* C19: a request of a superuser for a known permission finds the role owner in the
   active database, with or without a membership row, and is dispatched *)
C19_SuperuserIsOwner ==
    (last.op = "dispatch" /\ last.user \in Superusers /\ last.permission # "export") =>
        /\ last.outcome = "dispatched"
        /\ get_user_role(db, last.database, last.user) = "owner"
        /\ _role_for_user(db, last.user, last.database) = "owner"

(* the role column of the membership row of (user, database), "none" without a row
   or for the anonymous user *)
MembershipRole(user, database) ==
    LET rows == {m \in db.memberships : m.user = user /\ m.research_database = database}
    IN  IF user = 0 \/ rows = {} THEN "none" ELSE (CHOOSE m \in rows : TRUE).role

(* C20: every permission is a function of the membership role alone: view for
   owner, admin, editor and viewer; edit for owner, admin and editor; manage members
   for owner and admin; owner for owner; no membership or no login gives no role and
   no permission; and a view is dispatched only when its required permission is a
   known one that the role satisfies *)
C20_PermissionsFollowRole ==
    /\ \A u \in Accounts \cup {0}, d \in DatabaseIds :
          LET role == MembershipRole(u, d)
          IN  /\ get_user_role(db, d, u) = role
              /\ can_view(db, d, u) <=> role \in {"owner", "admin", "editor", "viewer"}
              /\ can_edit(db, d, u) <=> role \in {"owner", "admin", "editor"}
              /\ can_manage_members(db, d, u) <=> role \in {"owner", "admin"}
              /\ is_owner(db, d, u) <=> role = "owner"
    /\ (last.op = "dispatch" /\ last.outcome = "dispatched") =>
          LET role == MembershipRole(last.user, last.database)
          IN  /\ last.permission \in {"view", "edit", "manage_members", "owner", "admin"}
              /\ last.permission = "view" => role \in {"owner", "admin", "editor", "viewer"}
              /\ last.permission = "edit" => role \in {"owner", "admin", "editor"}
              /\ last.permission = "manage_members" => role \in {"owner", "admin"}
              /\ last.permission = "owner" => role = "owner"
              /\ last.permission = "admin" => role = "admin"

(* a viewer's request for a view that requires edit was answered 403, an anonymous
   request was refused, and so was a request for an unknown permission *)
C20_Witness ==
    /\ last.op = "dispatch"
    /\ last.outcome = "forbidden"
    /\ \/ MembershipRole(last.user, last.database) = "viewer" /\ last.permission = "edit"
       \/ MembershipRole(last.user, last.database) = "owner" /\ last.permission = "export"

----------------------------------------------------------------------------
(* Audit trail *)

(* C21: audit entries are append-only: every AuditLog and ActivityLog entry that exists
   before an operation exists unchanged after it *)
C21_AuditEntriesAppendOnly ==
    [][/\ db.audit_logs \subseteq db'.audit_logs
       /\ db.activity_logs \subseteq db'.activity_logs]_vars

----------------------------------------------------------------------------
(* models.py: Strain.archive and Strain.restore; views.py: the bulk archive action *)

(* timezone.now(): a set timestamp (0 stands for None) *)
Timestamp == 1

(* Strain.archive(user) *)
StrainArchive(user, strain) ==
    /\ restore.pc = "idle"
    /\ \E s \in db.strains : s.id = strain
    /\ db' = [db EXCEPT !.strains =
                {IF s.id = strain
                 THEN [s EXCEPT !.is_archived = TRUE, !.archived_at = Timestamp,
                                !.archived_by = user]
                 ELSE s : s \in @}]
    /\ last' = [op |-> "archive", strain |-> strain, user |-> user]
    /\ UNCHANGED <<restore, run>>

(* Strain.restore() *)
StrainRestore(strain) ==
    /\ restore.pc = "idle"
    /\ \E s \in db.strains : s.id = strain
    /\ db' = [db EXCEPT !.strains =
                {IF s.id = strain
                 THEN [s EXCEPT !.is_archived = FALSE, !.archived_at = 0, !.archived_by = 0]
                 ELSE s : s \in @}]
    /\ last' = [op |-> "restore", strain |-> strain, user |-> 0]
    /\ UNCHANGED <<restore, run>>

(* BulkEditStrainsView._selected_queryset: Strain.objects hides archived rows *)
SelectedStrains(d, database, ids) ==
    {s \in d.strains : /\ s.research_database = database
                       /\ s.is_active
                       /\ ~s.is_archived
                       /\ s.id \in ids}

(* BulkEditStrainsView.post with bulk_action = archive: the queryset update is committed on
   its own, then AuditLog.objects.create is called with the keywords record_type and
   record_id, which AuditLog does not have, and raises TypeError *)
BulkArchive(user, database, ids) ==
    /\ restore.pc = "idle"
    /\ can_edit(db, database, user)
    /\ LET selected == SelectedStrains(db, database, ids)
       IN  IF selected = {}
           THEN /\ db' = db
                /\ last' = [op |-> "bulk_archive", strain |-> 0, user |-> user]
           ELSE IF Cardinality(selected) # Cardinality(ids)
           THEN /\ db' = db
                /\ last' = [op |-> "bulk_archive", strain |-> 0, user |-> user]
           ELSE /\ db' = [db EXCEPT !.strains =
                            {IF s \in selected THEN [s EXCEPT !.is_archived = TRUE] ELSE s
                             : s \in @}]
                /\ last' = [op |-> "bulk_archive", strain |-> Max(ids), user |-> user]
    /\ UNCHANGED <<restore, run>>

(* the id, username and email of an account that is in no users_queryset: the account was
   deleted after the snapshot was exported *)
Vanished == 9

(* the exported document after the account `gone` was deleted: the document still names
   it, and no live account has its id, username or email *)
VanishedReferences(doc, gone) ==
    LET v(u) == IF u = gone THEN Vanished ELSE u
    IN  [doc EXCEPT
           !.databases = {[r EXCEPT !.created_by_id = v(@)] : r \in @},
           !.database_memberships =
               {[r EXCEPT !.user_id = v(@), !.username = v(@), !.email = v(@)] : r \in @},
           !.strains = {[r EXCEPT !.created_by_id = v(@), !.archived_by_id = v(@)] : r \in @},
           !.custom_fields = {[r EXCEPT !.created_by_id = v(@)] : r \in @},
           !.audit_logs = {[r EXCEPT !.user_id = v(@)] : r \in @}]

(* the account can be deleted: no row protects it (created_by is on_delete=PROTECT) *)
Deletable(d, user) ==
    /\ \A r \in d.databases : r.created_by # user
    /\ \A r \in d.strains : r.created_by # user
    /\ \A r \in d.custom_fields : r.created_by # user

(* restore_organization_snapshot called with a document exported before `gone` was deleted *)
RestoreCallVanished(user, gone) ==
    /\ restore.pc = "idle"
    /\ RestoreCount(db) < MaxRestores
    /\ user # gone
    /\ Deletable(db, gone)
    /\ restore' = [pc |-> "called", tamper |-> "none", acting_user |-> user, stage |-> 1,
                   doc |-> VanishedReferences(build_organization_snapshot(db), gone),
                   w |-> [ok |-> TRUE, tx |-> db, maps |-> EmptyMaps],
                   pre |-> db]
    /\ last' = NoOp
    /\ UNCHANGED <<db, run>>

StrainSelections == SUBSET {1, 2} \ {{}}

ArchiveNext ==
    \/ RestoreNext
    \/ \E u \in Users, g \in Users : RestoreCallVanished(u, g)
    \/ \E u \in Users, s \in {1, 2} : StrainArchive(u, s)
    \/ \E s \in {1, 2} : StrainRestore(s)
    \/ \E u \in Users, d \in DatabaseIds, ids \in StrainSelections : BulkArchive(u, d, ids)

ArchiveSpec == Init /\ [][ArchiveNext]_vars

(* what the restore is said to store for a user reference of the document *)
ResolvedOrActing(user_id, acting_user) ==
    IF user_id = 0 THEN 0 ELSE IF user_id \in Users THEN user_id ELSE acting_user

(* C22: after a restore, every user reference of the document (membership user, created_by,
   archived_by) is stored as the live user with that id, else as the acting user *)
C22_ReferencesFallBackToActingUser ==
    restore.pc = "done" =>
        /\ \A r \in restore.doc.database_memberships :
             \E m \in db.memberships :
                m.user = ResolvedOrActing(r.user_id, restore.acting_user)
        /\ \A r \in restore.doc.strains :
             \E s \in db.strains :
                /\ s.strain_id = r.strain_id
                /\ s.created_by = ResolvedOrActing(r.created_by_id, restore.acting_user)
                /\ s.archived_by = ResolvedOrActing(r.archived_by_id, restore.acting_user)

(* C29: a strain is archived exactly when its archive time is set *)
C29_ArchivedIffArchivedAt ==
    \A s \in db.strains : s.is_archived <=> s.archived_at # 0

----------------------------------------------------------------------------
(* dynamic_forms.py: one equals condition against the submitted values *)

(* the values a form hands over under a key *)
SubmittedValues ==
    {EmptyStr, AMP, <<"int", 0>>, <<"int", 1>>, <<"bool", 0>>, <<"obj", 1>>}

ExpectedValues == {EmptyStr, AMP, <<"int", 0>>, <<"int", 1>>, <<"bool", 0>>}

(* the submitted dictionaries over the keys marker and custom_marker *)
SubmittedDicts ==
    UNION {[keys -> SubmittedValues] : keys \in SUBSET {"marker", "custom_marker"}}

EqualsLogic(expected) ==
    [kind |-> "map", operator |-> "AND",
     conditions |-> [kind |-> "list",
                     items |-> <<[kind |-> "map", field |-> "marker",
                                  operator |-> "equals", value |-> expected]>>]]

EqualsInit ==
    /\ db = Fixture
    /\ restore = IdleRestore
    /\ run = IdleRun
    /\ last \in {[op |-> "equals", expected |-> v, values |-> d, result |-> "pending"]
                 : v \in ExpectedValues, d \in SubmittedDicts}

EvaluateEquals ==
    /\ last.result = "pending"
    /\ last' = [last EXCEPT
                  !.result = evaluate_condition_logic(EqualsLogic(last.expected), last.values)]
    /\ UNCHANGED <<db, restore, run>>

EqualsSpec == EqualsInit /\ [][EvaluateEquals]_vars

(* the submitted value under key f, or under custom_f when key f is absent, an entity
   reference replaced by its identifier *)
SubmittedUnder(values, key) ==
    LET v == IF key \in DOMAIN values THEN values[key] ELSE DictGet(values, CustomKey(key))
    IN  IF v[1] = "obj" THEN <<"int", v[2]>> ELSE v

(* C23: an equals condition on field f is true exactly when the submitted value under key
   f, or under custom_f when key f is absent, equals the expected value, falsy values
   (0, False, '') included *)
C23_EqualsOnSubmittedValue ==
    (last.op = "equals" /\ last.result # "pending") =>
        (last.result = "True"
            <=> PyEq(SubmittedUnder(last.values, "marker"), last.expected))

----------------------------------------------------------------------------
(* dynamic_forms.py: the initial values of the dynamic fields *)

Defaults == {EmptyDefault, [set |-> TRUE, value |-> <<"str", 1>>]}

(* CustomFieldDefinitionAdmin add view with a default value *)
DefinitionAdminAddDefault(user, database, name, field_type, default) ==
    /\ restore.pc = "idle"
    /\ get_user_role(db, database, user) \in {"admin", "editor"}
    /\ Cardinality(db.custom_fields) < MaxDefs
    /\ LET d == InsertDefinition(db, database, user, name, "", field_type, FALSE, {}, {})
       IN  /\ d # db
           /\ db' = [d EXCEPT !.custom_fields =
                       {IF f.id = d.seq.custom_fields
                        THEN [f EXCEPT !.default_value = default] ELSE f : f \in @}]
    /\ last' = NoOp
    /\ UNCHANGED <<restore, run>>

(* lines 76-78 and 130-134: form.initial of one dynamic field; strain 0 is a record
   that is not saved yet (instance.pk is None) *)
InitialValue(d, strain, definition) ==
    LET existing == IF strain = 0 THEN {} ELSE ValueRow(d, strain, definition.id)
    IN  IF existing # {}
        THEN display_value(definition.field_type, (CHOOSE v \in existing : TRUE).cols)
        ELSE IF definition.default_value.set THEN definition.default_value.value
        ELSE Absent

(* the form is built for a new record (strain 0) or for an existing one *)
FormOpen(user, database, strain) ==
    /\ restore.pc = "idle"
    /\ strain # 0 => \E s \in db.strains : s.id = strain /\ s.research_database = database
    /\ LET entries == build_dynamic_custom_fields(db, database, user)
       IN  /\ entries # {}
           /\ last' = [op |-> "form_open", user |-> user, strain |-> strain,
                       entries |-> entries,
                       initial |-> [f \in entries |-> InitialValue(db, strain, f)]]
    /\ UNCHANGED <<db, restore, run>>

InitialNext ==
    \/ \E u \in Users, d \in DatabaseIds, n \in DefNames, t \in FieldTypes, v \in Defaults :
            DefinitionAdminAddDefault(u, d, n, t, v)
    \/ \E u \in Users, s \in db.strains :
          \E c \in CleanedData(db, s.research_database,
                               build_dynamic_custom_fields(db, s.research_database, u),
                               DynamicSubmissions) :
            DynamicFormSave(u, s.id, c)
    \/ \E u \in Users, d \in DatabaseIds, s \in {0, 1, 2} : FormOpen(u, d, s)

InitialSpec == Init /\ [][InitialNext]_vars

(* C24: the initial value of a dynamic field is the stored value when there is one; the
   default is used only when there is none and the record is new; an existing record
   without a stored value gets no initial value *)
C24_DefaultOnlyForNewRecord ==
    last.op = "form_open" =>
        \A f \in last.entries :
            LET existing == IF last.strain = 0 THEN {} ELSE ValueRow(db, last.strain, f.id)
            IN  last.initial[f] =
                  IF existing # {}
                  THEN display_value(f.field_type, (CHOOSE v \in existing : TRUE).cols)
                  ELSE IF last.strain = 0 /\ f.default_value.set THEN f.default_value.value
                  ELSE Absent

----------------------------------------------------------------------------
(* views.py: database creation and the membership views *)

MaxDatabases == 2

DatabaseNames == {"AB", "DB"}

(* CreateDatabaseView.form_valid: the INSERT fires ensure_creator_owns_database, then the
   new database becomes the session's active database; the database is placed in the
   creator's own organization (ResearchDatabase.save) *)
InsertDatabase(d, user, name) ==
    LET id == d.seq.databases + 1
    IN  [d EXCEPT !.databases = @ \cup {[id |-> id, name |-> name, created_by |-> user]},
                  !.memberships = ensure_creator_owns_database(@, id, user),
                  !.sessions[user] = id,
                  !.seq.databases = id]

CreateDatabase(user, name) ==
    /\ restore.pc = "idle"
    /\ Cardinality(db.databases) < MaxDatabases
    /\ db' = InsertDatabase(db, user, name)
    /\ last' = NoOp
    /\ UNCHANGED <<restore, run>>

(* DatabaseMembershipUpdateRoleView.post: the membership is named by its user *)
UpdateRole(actor, database, user, role) ==
    /\ restore.pc = "idle"
    /\ can_manage_members(db, database, actor)
    /\ \E m \in db.memberships :
          /\ m.research_database = database /\ m.user = user
          /\ db' = IF m.role = "owner" /\ ~is_owner(db, database, actor) THEN db
                   ELSE IF role = "owner" /\ ~is_owner(db, database, actor) THEN db
                   ELSE [db EXCEPT !.memberships = UpsertMembership(@, database, user, role)]
    /\ last' = NoOp
    /\ UNCHANGED <<restore, run>>

(* DatabaseTransferOwnershipView.post (required_permission = 'owner') *)
TransferOwnership(actor, database, user) ==
    /\ restore.pc = "idle"
    /\ is_owner(db, database, actor)
    /\ \E new_owner \in db.memberships :
          /\ new_owner.research_database = database /\ new_owner.user = user
          /\ LET owners == {m \in db.memberships :
                              m.research_database = database /\ m.role = "owner"}
                 current_owner == CHOOSE m \in owners : \A o \in owners : m.user <= o.user
                 demoted == IF owners = {} THEN db.memberships
                            ELSE UpsertMembership(db.memberships, database,
                                                  current_owner.user, "admin")
             IN  db' = IF owners # {} /\ current_owner = new_owner THEN db
                       ELSE [db EXCEPT !.memberships =
                                UpsertMembership(demoted, database, user, "owner")]
    /\ last' = NoOp
    /\ UNCHANGED <<restore, run>>

MembershipNext ==
    \/ \E u \in Accounts, n \in DatabaseNames : CreateDatabase(u, n)
    \/ \E a \in Accounts, d \in DatabaseIds, u \in Accounts, r \in Roles : MembersPost(a, d, u, r)
    \/ \E a \in Accounts, d \in DatabaseIds, u \in Accounts, r \in Roles : UpdateRole(a, d, u, r)
    \/ \E a \in Accounts, d \in DatabaseIds, u \in Accounts : MembershipRemove(a, d, u)
    \/ \E a \in Accounts, d \in DatabaseIds, u \in Accounts : TransferOwnership(a, d, u)

MembershipSpec == Init /\ [][MembershipNext]_vars

(* the owner memberships of a database *)
Owners(d, database) ==
    {m \in d.memberships : m.research_database = database /\ m.role = "owner"}

(* C26: every database has exactly one owner membership in every reachable state *)
C26_ExactlyOneOwner ==
    \A r \in db.databases : Cardinality(Owners(db, r.id)) = 1

(* C27: a step of a membership view taken by an actor who is not the owner of the database
   leaves the owner memberships of the database as they were *)
C27_OnlyOwnerTouchesOwnership ==
    [][\A a \in Accounts, d \in DatabaseIds, u \in Accounts :
          (/\ ~is_owner(db, d, a)
           /\ \/ \E r \in Roles : MembersPost(a, d, u, r)
              \/ \E r \in Roles : UpdateRole(a, d, u, r)
              \/ MembershipRemove(a, d, u)
              \/ TransferOwnership(a, d, u))
          => Owners(db', d) = Owners(db, d)]_vars

----------------------------------------------------------------------------
(* helpers.py, views.py: the active database of a session *)

(* switch_database: get_object_or_404 on the user's memberships, then the session key *)
SwitchDatabase(user, database) ==
    /\ restore.pc = "idle"
    /\ \E m \in db.memberships : m.user = user /\ m.research_database = database
    /\ db' = [db EXCEPT !.sessions[user] = database]
    /\ last' = NoOp
    /\ UNCHANGED <<restore, run>>

(* a request of `user` resolves its active database (ActiveDatabaseMiddleware and
   DatabasePermissionMixin call get_active_database); the resolved database is written
   to the session *)
Resolve(user) ==
    /\ restore.pc = "idle"
    /\ LET session == IF user = 0 THEN 0 ELSE db.sessions[user]
           active == get_active_database(db, user, session)
       IN  /\ db' = IF active.kind = "database"
                    THEN [db EXCEPT !.sessions[user] = active.id] ELSE db
           /\ last' = [op |-> "resolve", user |-> user, session |-> session,
                       kind |-> active.kind, id |-> active.id]
    /\ UNCHANGED <<restore, run>>

(* the fixture after user 1 created a second database, named AB, and switched back *)
ActiveInit ==
    /\ db = [InsertDatabase(Fixture, 1, "AB") EXCEPT !.sessions[1] = 1]
    /\ restore = IdleRestore
    /\ last = NoOp
    /\ run = IdleRun

ActiveNext ==
    \/ \E a \in Users, d \in DatabaseIds, u \in Users, r \in Roles : MembersPost(a, d, u, r)
    \/ \E a \in Users, d \in DatabaseIds, u \in Users : MembershipRemove(a, d, u)
    \/ \E u \in Users, d \in DatabaseIds : SwitchDatabase(u, d)
    \/ \E u \in Users \cup {0} : Resolve(u)

ActiveSpec == ActiveInit /\ [][ActiveNext]_vars

(* the databases in which the user holds a membership *)
MemberOf(user) == {m.research_database : m \in {x \in db.memberships : x.user = user}}

(* no other database of S comes before database id in ORDER BY name, id *)
FirstByName(id, S) ==
    /\ id \in S
    /\ \A o \in S :
         LET a == CHOOSE r \in db.databases : r.id = id
             b == CHOOSE r \in db.databases : r.id = o
         IN  \/ NameRank(a.name) < NameRank(b.name)
             \/ (NameRank(a.name) = NameRank(b.name) /\ id <= o)

(* C25: the active database resolved for a user is one in which the user holds a
   membership, and it is stored in the session; with the session unset or stale it is the
   first of the user's databases by name; without a membership the request is redirected
   to database creation *)
C25_ActiveDatabaseIsAMembership ==
    (last.op = "resolve" /\ last.user # 0) =>
        /\ last.kind = "database" =>
              /\ last.id \in MemberOf(last.user)
              /\ db.sessions[last.user] = last.id
        /\ (MemberOf(last.user) = {}) <=> (last.kind = "redirect")
        /\ (MemberOf(last.user) # {} /\ last.session \notin MemberOf(last.user)) =>
              FirstByName(last.id, MemberOf(last.user))

(* a stale session: the session names a database in which the user's membership is gone,
   and the request is resolved to database AB *)
C25_Witness ==
    /\ last.op = "resolve"
    /\ last.kind = "database"
    /\ last.session \notin MemberOf(last.user)
    /\ last.session # 0
    /\ last.id = 2

----------------------------------------------------------------------------
(* Two research databases in one organization *)

(* the fixture after user 1 created the database AB and the organism Yeast in it *)
TenantInit ==
    /\ db = [InsertDatabase(Fixture, 1, "AB") EXCEPT
               !.organisms = @ \cup {[id |-> 2, research_database |-> 2, name |-> "Yeast"]},
               !.seq.organisms = 2]
    /\ restore = IdleRestore
    /\ last = NoOp
    /\ run = IdleRun

(* a snapshot document in which every strain names an organism of another database of
   the organization *)
CrossedReferences(doc) ==
    [doc EXCEPT !.strains =
        {[r EXCEPT !.organism_id =
              (CHOOSE o \in doc.organisms :
                    o.research_database_id # r.research_database_id).id]
         : r \in @}]

(* restore_organization_snapshot called with such a document *)
RestoreCallCrossed(user) ==
    /\ restore.pc = "idle"
    /\ RestoreCount(db) < MaxRestores
    /\ restore' = [pc |-> "called", tamper |-> "none", acting_user |-> user, stage |-> 1,
                   doc |-> CrossedReferences(build_organization_snapshot(db)),
                   w |-> [ok |-> TRUE, tx |-> db, maps |-> EmptyMaps],
                   pre |-> db]
    /\ last' = NoOp
    /\ UNCHANGED <<db, run>>

TenantNext ==
    \/ RestoreNext
    \/ \E u \in Users : RestoreCallCrossed(u)
    \/ \E u \in Users, d \in DatabaseIds, i \in StrainIds,
          o \in {r.id : r \in db.organisms}, l \in {r.id : r \in db.locations} :
          \E c \in CleanedData(db, d, StrainFormFields(db, d, u), StrainFormSubmissions) :
            StrainCreate(u, d, i, o, l, c)

TenantSpec == TenantInit /\ [][TenantNext]_vars

(* C28: the organism, the location and the linked plasmids of every strain belong to the
   research database of the strain *)
C28_TenantIsolation ==
    /\ \A s \in db.strains :
          /\ \A o \in db.organisms : o.id = s.organism => o.research_database = s.research_database
          /\ \A l \in db.locations : l.id = s.location => l.research_database = s.research_database
    /\ \A sp \in db.strain_plasmids :
          \A s \in db.strains, p \in db.plasmids :
             (s.id = sp.strain /\ p.id = sp.plasmid) => p.research_database = s.research_database

----------------------------------------------------------------------------
(* views.py: CSVUploadView, the import wizard kept in the session *)

(* the uploaded file: two columns and one data row *)
UploadedHeaders == <<"a", "b">>

UploadedRows == <<[a |-> "S2", b |-> "Box 1"]>>

(* the target fields offered for a column; "" is 'Do not import' *)
MappingChoices == {"", "strain_id", "location"}

ColumnMappings == [{"a", "b"} -> MappingChoices]

(* import_utils.build_mapped_rows for one row: the columns are visited in header order
   and a later column overwrites an earlier one mapped to the same field; a field no
   column is mapped to reads '' *)
MappedRow(row, headers, column_mapping) ==
    [f \in REQUIRED_IMPORT_FIELDS |->
        LET hs == {i \in DOMAIN headers :
                     headers[i] \in DOMAIN column_mapping /\ column_mapping[headers[i]] = f}
        IN  IF hs = {} THEN "" ELSE row[headers[Max(hs)]]]

build_mapped_rows(rows, headers, column_mapping) ==
    [i \in DOMAIN rows |-> MappedRow(rows[i], headers, column_mapping)]

(* the rows import_strains_from_csv_rows skips: blank or existing strain id, or
   validation errors *)
SkippedRows(d, database, mapped_rows) ==
    {i \in DOMAIN mapped_rows :
        \/ mapped_rows[i]["strain_id"] = ""
        \/ \E s \in d.strains : s.research_database = database
                                  /\ s.strain_id = mapped_rows[i]["strain_id"]
        \/ validate_import_row(mapped_rows[i]) # {}}

(* two columns are mapped to the same target field *)
MappedTwice(column_mapping) ==
    \E g, h \in DOMAIN column_mapping :
        g # h /\ column_mapping[g] # "" /\ column_mapping[g] = column_mapping[h]

(* post, action = cancel *)
WizardCancel(user, database) ==
    /\ restore.pc = "idle"
    /\ can_edit(db, database, user)
    /\ db' = [db EXCEPT !.wizards[user] = EmptyWizard]
    /\ last' = [op |-> "cancel", user |-> user, column_mapping |-> <<>>, uploaded |-> FALSE]
    /\ UNCHANGED <<restore, run>>

(* post, action = upload, with a file that parses *)
WizardUpload(user, database) ==
    /\ restore.pc = "idle"
    /\ can_edit(db, database, user)
    /\ db' = [db EXCEPT !.wizards[user] =
                [step |-> "mapping", headers |-> UploadedHeaders, rows |-> UploadedRows,
                 column_mapping |-> <<>>]]
    /\ last' = [op |-> "upload", user |-> user, column_mapping |-> <<>>, uploaded |-> TRUE]
    /\ UNCHANGED <<restore, run>>

(* post, action = mapping: a mapping with a field used twice is reported and stored *)
WizardMapping(user, database, column_mapping) ==
    /\ restore.pc = "idle"
    /\ can_edit(db, database, user)
    /\ LET state == db.wizards[user]
       IN  IF state.headers = <<>>
           THEN /\ db' = db
                /\ last' = [op |-> "upload_first", user |-> user,
                            column_mapping |-> <<>>, uploaded |-> FALSE]
           ELSE /\ db' = [db EXCEPT !.wizards[user] =
                            [state EXCEPT !.step = IF MappedTwice(column_mapping)
                                                   THEN "mapping" ELSE "preview",
                                          !.column_mapping = column_mapping]]
                /\ last' = [op |-> IF MappedTwice(column_mapping) THEN "mapping_error"
                                   ELSE "mapping",
                            user |-> user, column_mapping |-> column_mapping,
                            uploaded |-> TRUE]
    /\ UNCHANGED <<restore, run>>

(* post, action = confirm_import: the rows of the uploaded file lack required fields and
   are all skipped by the import; AuditLog.objects.create is then called with the
   keywords record_type and record_id and raises TypeError ahead of _clear_state *)
WizardConfirm(user, database) ==
    /\ restore.pc = "idle"
    /\ can_edit(db, database, user)
    /\ LET state == db.wizards[user]
           mapped_rows == build_mapped_rows(state.rows, state.headers, state.column_mapping)
       IN  IF state.headers = <<>>
           THEN last' = [op |-> "upload_first", user |-> user,
                         column_mapping |-> <<>>, uploaded |-> FALSE]
           ELSE /\ SkippedRows(db, database, mapped_rows) = DOMAIN mapped_rows
                /\ last' = [op |-> "confirm_import", user |-> user,
                            column_mapping |-> state.column_mapping, uploaded |-> TRUE]
    /\ UNCHANGED <<db, restore, run>>

WizardNext ==
    \/ \E u \in Users, d \in DatabaseIds : WizardCancel(u, d)
    \/ \E u \in Users, d \in DatabaseIds : WizardUpload(u, d)
    \/ \E u \in Users, d \in DatabaseIds, c \in ColumnMappings : WizardMapping(u, d, c)
    \/ \E u \in Users, d \in DatabaseIds : WizardConfirm(u, d)

WizardSpec == Init /\ [][WizardNext]_vars

(* C30: the import is executed after an upload only, never with a mapping in which two
   columns map to the same target field, and the wizard state is empty after
   confirm_import and after cancel *)
C30_WizardImportsCleanMappingOnce ==
    /\ last.op = "confirm_import" =>
          /\ last.uploaded
          /\ ~MappedTwice(last.column_mapping)
          /\ db.wizards[last.user] = EmptyWizard
    /\ last.op = "cancel" => db.wizards[last.user] = EmptyWizard

====
